---- MODULE Spec2Model ----
(***************************************************************************)
(* A model of the map-page filtering and sign-crop export pipeline:        *)
(*   Sign_processing/Map_extractor.py  (ORB_maps, MapExtractor)            *)
(*   Sign_processing/Sign_extractor.py (Sign_extractor_class)              *)
(* An image is modelled by what the feature detector finds in it: whether  *)
(* cv2.imread can read it, and the list of its binary descriptors.         *)
(***************************************************************************)
EXTENDS Integers, Sequences, FiniteSets, TLC

VARIABLES
    \* MapExtractor.pdf_To_image: the output directory, the configured matcher,
    \* where the run is, the number of the run, the page being handled next and
    \* the number of pages of the PDF
    dir, Orb, pc, run, i, nPages,
    \* the last page handled and what became of it; the pages this run rejected
    last, rejected,
    \* ORB_maps.matches applied to one pair of images
    mA, mB, mOrb, mDone, mResult,
    \* MapExtractor.check_mach_old_map applied to one candidate and one directory
    sFs, sIsDir, sCand, sOrb, sDone, sResult, sCompared,
    \* Sign_extractor_class.save_crop applied to one image, box and padding
    cW, cH, cBox, cPad, cDone, cCrop,
    \* the crop files one pipeline run has written (how often each), and the
    \* number of pages it has mined
    eFiles, eMined,
    \* MapExtractor.check_text_in_pdf applied to one page
    tChars, tDone, tResult,
    \* Geometry_finder.plausible applied to one contour found on a canvas
    gGeom, gCanvas, gContour, gDone, gResult,
    \* extract_signs up to the plausibility test on a page showing one shape and
    \* on a page of doubled size showing the same pixels of it: the shape, the
    \* settings, how far the shape is moved on the larger page, and for each
    \* page the red-edge mask, its contours and those plausible() accepts
    bShape, bGeom, bOffset, bDone, bSmall, bDoubled,
    \* the body of the contour loop of extract_signs on one contour: the number
    \* of positive pixels of each mask inside the box, and the decision
    vMins, vContour, vCenter, vRed, vDone, vExported,
    \* the body of the contour loop of extract_subsigns on one yellow contour
    uCand, uDone, uRect, uExported,
    \* HSVColorMask.get_masks on one HSV image
    kImage, kDone, kRedEdge, kCenter,
    \* app.upload_file on one request: the request, the status of the response,
    \* the session directories under UPLOAD_FOLDER, the files saved in them and
    \* the sessions process_pdf was called for, the JSON body of the response,
    \* and whether a step raised inside process_pdf
    hReq, hDone, hStatus, hSessions, hSaved, hRuns, hBody, hRaised,
    \* and how far the handler has come
    hPc,
    \* the rest of a pipeline run (main.py, process_pdf): the sorted listing of
    \* page files, the position in it, the crop files of the sign directory with
    \* what each holds, the pages mined so far in order, and the pages of the
    \* PDF that had more than 500 characters of text
    filesSorted, minePos, signsDir, mined, textHeavy,
    \* a candidate page A checked against a directory whose only other file is
    \* B: what matches(A, B) returns and what check_mach_old_map returns
    dA, dB, dOrb, dDone, dMatch, dScan,
    \* pdf_To_image run again: the PDF an earlier run put into the directory,
    \* the PDF that is then run twice, and the directory after its first run
    rEarlier, rPdf, rAfterFirst,
    \* two upload requests served at the same time: the PDF of each, its
    \* session id, where it stands, its page or listing position, its sorted
    \* listing; the maps and signs directory of every session directory, and
    \* the requests that have read or written each session directory
    qPdf, qSid, qPc, qI, qFiles, qMaps, qSigns, qTouched,
    \* the page image a request has read with cv2.imread, whether OCR found
    \* the page text-heavy, and the listing and position of its duplicate scan
    qImg, qText, qCand, qJ

matchVars == <<mA, mB, mOrb, mDone, mResult>>
scanVars == <<sFs, sIsDir, sCand, sOrb, sDone, sResult, sCompared>>
pipeVars == <<dir, Orb, pc, run, i, nPages, last, rejected>>
cropVars == <<cW, cH, cBox, cPad, cDone, cCrop>>
extractVars == <<eFiles, eMined>>
textVars == <<tChars, tDone, tResult>>
geomVars == <<gGeom, gCanvas, gContour, gDone, gResult>>
canvasVars == <<bShape, bGeom, bOffset, bDone, bSmall, bDoubled>>
dirnVars == <<dA, dB, dOrb, dDone, dMatch, dScan>>
rerunVars == <<rEarlier, rPdf, rAfterFirst>>
concVars ==
    <<qPdf, qSid, qPc, qI, qFiles, qMaps, qSigns, qTouched, qImg, qText, qCand,
      qJ>>
mineVars == <<filesSorted, minePos, signsDir, mined, textHeavy>>
uploadVars ==
    <<hReq, hDone, hStatus, hSessions, hSaved, hRuns, hBody, hRaised, hPc>>
maskVars == <<kImage, kDone, kRedEdge, kCenter>>
subVars == <<uCand, uDone, uRect, uExported>>
valVars == <<vMins, vContour, vCenter, vRed, vDone, vExported>>
vars == <<pipeVars, matchVars, scanVars, cropVars, extractVars, textVars, geomVars,
          valVars, subVars, maskVars, uploadVars, mineVars,
          dirnVars, rerunVars, concVars, canvasVars>>

-----------------------------------------------------------------------------
(* Bounds of the model *)

\* descriptors are DescBits-bit vectors (ORB's are 256-bit)
DescBits == 2
\* most descriptors of a query image, and of a train image
MaxDesc == 3
MaxTrainDesc == 2

\* most files of a directory that is scanned for duplicates
MaxFiles == 3
\* most pages of a PDF, and most runs of pdf_To_image into one output directory
MaxPages == 2
MaxRuns == 2
\* most characters OCR reads from a page
MaxChars == 502
\* longest side of an image whose crops are computed, and largest padding
MaxSide == 4
MaxPad == 2
\* longest name of an uploaded file
MaxNameLen == 5
\* width and height of an image given to get_masks, and the most pixels of it
\* that are red, yellow or white
MaskWidth == 3
MaskHeight == 2
MaxColoured == 2
\* longest side of the bounding box of a contour tested for plausibility
MaxBoxSide == 162
\* side of the square page a shape is drawn on before the page is doubled
CanvasSide == 4
\* most contours of a page that pass validation, per pass, at the low indices
\* and at the indices from the sub-sign offset on
MaxContours == 2

-----------------------------------------------------------------------------
(* ORB_maps *)

Min2(a, b) == IF a <= b THEN a ELSE b
Max2(a, b) == IF a >= b THEN a ELSE b

RECURSIVE Pow2(_)
Pow2(k) == IF k = 0 THEN 1 ELSE 2 * Pow2(k - 1)

Bit(x, k) == (x \div Pow2(k)) % 2

\* cv2.NORM_HAMMING: the number of bit positions where two descriptors differ
Hamming(x, y) == Cardinality({k \in 0..(DescBits - 1) : Bit(x, k) # Bit(y, k)})

\* a file cv2.imread cannot read (missing, damaged, not a picture)
Unreadable == [readable |-> FALSE, features |-> <<>>]

\* cv2.imread: None for a file that cannot be read, else the picture
preprocess_image(file) ==
    IF file.readable THEN [none |-> FALSE, features |-> file.features]
    ELSE [none |-> TRUE, features |-> <<>>]

\* orb.detectAndCompute: no descriptors (None) for an empty image or an image
\* without keypoints, else at most nfeatures descriptors
detectAndCompute(img, nfeatures) ==
    IF img.none \/ Len(img.features) = 0 \/ nfeatures <= 0
    THEN [none |-> TRUE, des |-> <<>>]
    ELSE [none |-> FALSE,
          des |-> SubSeq(img.features, 1, Min2(nfeatures, Len(img.features)))]

\* the smallest value of a non-empty sequence of distances, and where it is
MinDist(ds) == CHOOSE d \in {ds[k] : k \in 1..Len(ds)} :
                   \A k \in 1..Len(ds) : d <= ds[k]
FirstAt(ds, d) == CHOOSE j \in 1..Len(ds) :
                      ds[j] = d /\ \A k \in 1..(j - 1) : ds[k] # d
Without(ds, j) == SubSeq(ds, 1, j - 1) \o SubSeq(ds, j + 1, Len(ds))

\* bf.knnMatch(des1, des2, k=2): for every query descriptor the distances of
\* its (at most) two nearest train descriptors, nearest first
knnMatch(des1, des2) ==
    [q \in 1..Len(des1) |->
        LET ds == [j \in 1..Len(des2) |-> Hamming(des1[q], des2[j])]
        IN  IF Len(ds) = 0 THEN <<>>
            ELSE LET d1 == MinDist(ds)
                     rest == Without(ds, FirstAt(ds, d1))
                 IN  IF Len(rest) = 0 THEN <<d1>>
                     ELSE <<d1, MinDist(rest)>>]

\* m.distance < ratio * n.distance, the ratio being num/den
RatioTest(pair, ratio) == pair[1] * ratio.den < ratio.num * pair[2]

\* the good matches of the list comprehension, as indices of the raw list
GoodMatches(raw, ratio) ==
    {q \in 1..Len(raw) : Len(raw[q]) = 2 /\ RatioTest(raw[q], ratio)}

\* matches counting the good pairs from the second image to the first
matchesReversed(orb, file1, file2) ==
    LET d1 == detectAndCompute(preprocess_image(file1), orb.nfeatures)
        d2 == detectAndCompute(preprocess_image(file2), orb.nfeatures)
    IN  IF d1.none THEN FALSE
        ELSE IF d2.none THEN FALSE
        ELSE IF Len(d1.des) < 2 THEN FALSE
        ELSE IF Len(d2.des) < 2 THEN FALSE
        ELSE Cardinality(GoodMatches(knnMatch(d2.des, d1.des), orb.ratio))
                 >= orb.min_good

\* matches without its guard on the second image's descriptor count
matchesNoTrainGuard(orb, file1, file2) ==
    LET d1 == detectAndCompute(preprocess_image(file1), orb.nfeatures)
        d2 == detectAndCompute(preprocess_image(file2), orb.nfeatures)
    IN  IF d1.none THEN FALSE
        ELSE IF d2.none THEN FALSE
        ELSE IF Len(d1.des) < 2 THEN FALSE
        ELSE Cardinality(GoodMatches(knnMatch(d1.des, d2.des), orb.ratio))
                 >= orb.min_good

\* matches demanding strictly more than min_good good pairs
matchesStrictCount(orb, file1, file2) ==
    LET d1 == detectAndCompute(preprocess_image(file1), orb.nfeatures)
        d2 == detectAndCompute(preprocess_image(file2), orb.nfeatures)
    IN  IF d1.none THEN FALSE
        ELSE IF d2.none THEN FALSE
        ELSE IF Len(d1.des) < 2 THEN FALSE
        ELSE IF Len(d2.des) < 2 THEN FALSE
        ELSE Cardinality(GoodMatches(knnMatch(d1.des, d2.des), orb.ratio))
                 > orb.min_good

\* ORB_maps.matches(img1_path, img2_path)
matches(orb, file1, file2) ==
    LET d1 == detectAndCompute(preprocess_image(file1), orb.nfeatures)
        d2 == detectAndCompute(preprocess_image(file2), orb.nfeatures)
    IN  IF d1.none THEN FALSE
        ELSE IF d2.none THEN FALSE
        ELSE IF Len(d1.des) < 2 THEN FALSE
        ELSE IF Len(d2.des) < 2 THEN FALSE
        ELSE Cardinality(GoodMatches(knnMatch(d1.des, d2.des), orb.ratio))
                 >= orb.min_good

-----------------------------------------------------------------------------
(* MapExtractor.check_mach_old_map *)

\* what cv2.imread finds at a path: a missing path reads as nothing
FileAt(fs, path) == IF path \in DOMAIN fs THEN fs[path].file ELSE Unreadable

\* glob.glob(old_map_path/*.jpg): the .jpg paths of the directory
JpgPaths(fs) == {p \in DOMAIN fs : fs[p].jpg}

\* the orders in which glob may list them
GlobOrders(fs) ==
    {o \in [1..Cardinality(JpgPaths(fs)) -> JpgPaths(fs)] :
        \A j, k \in DOMAIN o : j # k => o[j] # o[k]}

RECURSIVE scan_loop(_, _, _, _, _, _)
scan_loop(orb, image_path, fs, candidates, k, compared) ==
    IF k > Len(candidates) THEN [result |-> FALSE, compared |-> compared]
    ELSE IF candidates[k] = image_path
    THEN scan_loop(orb, image_path, fs, candidates, k + 1, compared)
    ELSE IF matches(orb, FileAt(fs, image_path), FileAt(fs, candidates[k]))
    THEN [result |-> TRUE, compared |-> Append(compared, candidates[k])]
    ELSE scan_loop(orb, image_path, fs, candidates, k + 1,
                   Append(compared, candidates[k]))

\* the loop returning after its first comparison, match or not
RECURSIVE scan_loopFirstOnly(_, _, _, _, _, _)
scan_loopFirstOnly(orb, image_path, fs, candidates, k, compared) ==
    IF k > Len(candidates) THEN [result |-> FALSE, compared |-> compared]
    ELSE IF candidates[k] = image_path
    THEN scan_loopFirstOnly(orb, image_path, fs, candidates, k + 1, compared)
    ELSE [result |-> matches(orb, FileAt(fs, image_path), FileAt(fs, candidates[k])),
          compared |-> Append(compared, candidates[k])]

\* the loop without the test for the candidate's own path
RECURSIVE scan_loopNoSkip(_, _, _, _, _, _)
scan_loopNoSkip(orb, image_path, fs, candidates, k, compared) ==
    IF k > Len(candidates) THEN [result |-> FALSE, compared |-> compared]
    ELSE IF matches(orb, FileAt(fs, image_path), FileAt(fs, candidates[k]))
    THEN [result |-> TRUE, compared |-> Append(compared, candidates[k])]
    ELSE scan_loopNoSkip(orb, image_path, fs, candidates, k + 1,
                         Append(compared, candidates[k]))

\* the loop giving up at the first corpus file that cannot be read
RECURSIVE scan_loopStopOnUnreadable(_, _, _, _, _, _)
scan_loopStopOnUnreadable(orb, image_path, fs, candidates, k, compared) ==
    IF k > Len(candidates) THEN [result |-> FALSE, compared |-> compared]
    ELSE IF candidates[k] = image_path
    THEN scan_loopStopOnUnreadable(orb, image_path, fs, candidates, k + 1, compared)
    ELSE IF ~FileAt(fs, candidates[k]).readable
    THEN [result |-> FALSE, compared |-> Append(compared, candidates[k])]
    ELSE IF matches(orb, FileAt(fs, image_path), FileAt(fs, candidates[k]))
    THEN [result |-> TRUE, compared |-> Append(compared, candidates[k])]
    ELSE scan_loopStopOnUnreadable(orb, image_path, fs, candidates, k + 1,
                                   Append(compared, candidates[k]))

check_mach_old_mapFirstOnly(orb, image_path, fs, isDir, candidates) ==
    IF ~isDir THEN [result |-> FALSE, compared |-> <<>>]
    ELSE scan_loopFirstOnly(orb, image_path, fs, candidates, 1, <<>>)

check_mach_old_mapNoSkip(orb, image_path, fs, isDir, candidates) ==
    IF ~isDir THEN [result |-> FALSE, compared |-> <<>>]
    ELSE scan_loopNoSkip(orb, image_path, fs, candidates, 1, <<>>)

check_mach_old_mapStopOnUnreadable(orb, image_path, fs, isDir, candidates) ==
    IF ~isDir THEN [result |-> FALSE, compared |-> <<>>]
    ELSE scan_loopStopOnUnreadable(orb, image_path, fs, candidates, 1, <<>>)

\* MapExtractor.check_mach_old_map(image_path, old_map_path): the directory is
\* fs, candidates is glob's listing of it; the result and, for the record, the
\* paths handed to matches in the order they were compared
check_mach_old_map(orb, image_path, fs, isDir, candidates) ==
    IF ~isDir THEN [result |-> FALSE, compared |-> <<>>]
    ELSE scan_loop(orb, image_path, fs, candidates, 1, <<>>)

-----------------------------------------------------------------------------
(* MapExtractor.pdf_To_image *)

\* a text filter that lets every page through
check_text_in_pdfNever(file) == FALSE

\* the text filter with the limit itself counted as text-heavy
check_text_in_pdfInclusive(file) == file.chars >= 500

\* MapExtractor.check_text_in_pdf: file.chars is len(text) of the OCR's text
check_text_in_pdf(file) == file.chars > 500

\* a removal that leaves the file in place
os_removeNothing(fs, path) == fs

\* os.remove(out_path)
os_remove(fs, path) == [p \in DOMAIN fs \ {path} |-> fs[p]]

\* page.save(out_path, "JPEG"): creates the file or replaces the one there
page_save(fs, path, page) ==
    [p \in DOMAIN fs \cup {path} |->
        IF p = path THEN [file |-> page.file, chars |-> page.chars, jpg |-> TRUE]
        ELSE fs[p]]

\* an iteration that runs the duplicate detector before the text filter
handle_pageDuplicateFirst(o, fs, idx, page, candidates) ==
    LET saved == page_save(fs, idx, page)
        r == check_mach_old_map(o, idx, saved, TRUE, candidates)
    IN  IF r.result
        THEN [dir |-> os_remove(saved, idx), outcome |-> "dup",
              compared |-> r.compared]
        ELSE IF check_text_in_pdf(saved[idx])
        THEN [dir |-> os_remove(saved, idx), outcome |-> "text",
              compared |-> r.compared]
        ELSE [dir |-> saved, outcome |-> "kept", compared |-> r.compared]

\* an iteration that finds a duplicate and leaves its file in the directory
handle_pageKeepsDuplicate(o, fs, idx, page, candidates) ==
    LET saved == page_save(fs, idx, page)
    IN  IF check_text_in_pdf(saved[idx])
        THEN [dir |-> os_remove(saved, idx), outcome |-> "text", compared |-> <<>>]
        ELSE LET r == check_mach_old_map(o, idx, saved, TRUE, candidates)
             IN  [dir |-> saved, outcome |-> IF r.result THEN "dup" ELSE "kept",
                  compared |-> r.compared]

\* one iteration of the loop of pdf_To_image on page i of the PDF, glob listing
\* the directory as candidates: the directory it leaves and what it decided
handle_page(o, fs, idx, page, candidates) ==
    LET saved == page_save(fs, idx, page)
    IN  IF check_text_in_pdf(saved[idx])
        THEN [dir |-> os_remove(saved, idx), outcome |-> "text", compared |-> <<>>]
        ELSE LET r == check_mach_old_map(o, idx, saved, TRUE, candidates)
             IN  IF r.result
                 THEN [dir |-> os_remove(saved, idx), outcome |-> "dup",
                       compared |-> r.compared]
                 ELSE [dir |-> saved, outcome |-> "kept", compared |-> r.compared]

-----------------------------------------------------------------------------
(* Sign_extractor_class *)

\* the padded box without clamping to the image
save_cropUnclamped(image_width, image_height, bbox, padding) ==
    [left |-> bbox.left - padding,
     top |-> bbox.top - padding,
     right |-> bbox.left + bbox.width + padding,
     bottom |-> bbox.top + bbox.height + padding]

\* save_crop with the padding taken off the box instead of added to it
save_cropInset(image_width, image_height, bbox, padding) ==
    [left |-> Max2(0, bbox.left + padding),
     top |-> Max2(0, bbox.top + padding),
     right |-> Min2(image_width, bbox.left + bbox.width - padding),
     bottom |-> Min2(image_height, bbox.top + bbox.height - padding)]

\* Sign_extractor_class.save_crop: the region it slices out of the image
save_crop(image_width, image_height, bbox, padding) ==
    [left |-> Max2(0, bbox.left - padding),
     top |-> Max2(0, bbox.top - padding),
     right |-> Min2(image_width, bbox.left + bbox.width + padding),
     bottom |-> Min2(image_height, bbox.top + bbox.height + padding)]

DigitChars == <<"0", "1", "2", "3", "4", "5", "6", "7", "8", "9">>

\* str(n) of a natural number, as its characters
RECURSIVE Decimal(_)
Decimal(k) ==
    IF k < 10 THEN <<DigitChars[k + 1]>>
    ELSE Decimal(k \div 10) \o <<DigitChars[(k % 10) + 1]>>

\* f"{idx:03d}": zero-padded to three characters, longer if it needs more
Format03d(idx) ==
    LET d == Decimal(idx)
    IN  IF Len(d) >= 3 THEN d
        ELSE [k \in 1..(3 - Len(d)) |-> "0"] \o d

\* Path("page_<k>.jpg").stem
PageStem(k) == <<"p", "a", "g", "e", "_">> \o Decimal(k)

\* a crop name without the stem of its page
CropNameNoStem(stem, idx) == Format03d(idx) \o <<".", "p", "n", "g">>

\* f"{self.image_path.stem}_{idx:03d}.png"
CropName(stem, idx) == stem \o <<"_">> \o Format03d(idx) \o <<".", "p", "n", "g">>

\* the ids extract_signs hands to save_crop for the contours that pass
PrimaryId(idx) == idx
SubSignId(idx) == 900 + idx

\* a set of contour indices in the order enumerate yields them
RECURSIVE Ascending(_)
Ascending(S) ==
    IF S = {} THEN <<>>
    ELSE LET m == CHOOSE x \in S : \A y \in S : x <= y
         IN  <<m>> \o Ascending(S \ {m})

\* Sign_extractor_class.extract_signs on the page with this stem: the names
\* of the files it writes, in order; primary and subs are the indices of the
\* contours that pass validation in the red-edge and in the yellow pass
extract_signs(stem, primary, subs) ==
    [k \in 1..Cardinality(primary) |-> CropName(stem, PrimaryId(Ascending(primary)[k]))]
    \o [k \in 1..Cardinality(subs) |-> CropName(stem, SubSignId(Ascending(subs)[k]))]

\* cv2.imwrite of each name in turn: the count of writes per file
RECURSIVE imwrite_all(_, _)
imwrite_all(files, names) ==
    IF names = <<>> THEN files
    ELSE LET f == Head(names)
             written == [g \in DOMAIN files \cup {f} |->
                           IF g = f THEN (IF f \in DOMAIN files THEN files[f] + 1 ELSE 1)
                           ELSE files[g]]
         IN  imwrite_all(written, Tail(names))

-----------------------------------------------------------------------------
(* main.py and process_pdf: pdf_To_image, then extract_signs page by page *)

\* a loop of pdf_To_image that ends after its first page
pdf_To_image_continuesNever(idx, pages) == FALSE

\* the loop of pdf_To_image over enumerate(pages, start=1) goes on after page
\* idx while pages are left; only when it has ended does pdf_To_image return
pdf_To_image_continues(idx, pages) == idx + 1 <= pages

\* an iteration that deletes the page file it wrote when OCR raises
pdf_To_image_ocr_raisesCleansUp(fs, idx, page) ==
    os_remove(page_save(fs, idx, page), idx)

\* the iteration of pdf_To_image in which pytesseract raises inside
\* check_text_in_pdf: page.save has written page_<idx>.jpg, nothing catches the
\* exception, so neither os.remove nor check_mach_old_map is reached
pdf_To_image_ocr_raises(fs, idx, page) == page_save(fs, idx, page)

\* a listing sorted from the highest page number down
Files_sortedDescending(fs) ==
    LET up == Ascending({p \in JpgPaths(fs) : p >= 1})
    IN  [k \in 1..Len(up) |-> up[Len(up) + 1 - k]]

\* sorted(output_dir_maps.glob("page_*.jpg"), key=int(stem.split("_")[1])):
\* path k >= 1 is page_<k>.jpg, path 0 is old_map.jpg
Files_sorted(fs) == Ascending({p \in JpgPaths(fs) : p >= 1})

\* cv2.imwrite of the first `written` of the names, each crop tagged with the
\* page it was cut from and its place among the crops of that page
RECURSIVE write_crops(_, _, _, _, _)
write_crops(signs, names, page, k, written) ==
    IF k > written THEN signs
    ELSE write_crops([f \in DOMAIN signs \cup {names[k]} |->
                         IF f = names[k] THEN [page |-> page, nth |-> k]
                         ELSE signs[f]],
                     names, page, k + 1, written)

\* Sign_extractor_class(image_path, output_dir).extract_signs() on page_<idx>.jpg
\* as far as its first `written` crops: the sign directory it leaves
extract_signs_into(signs, idx, primary, subs, written) ==
    write_crops(signs, extract_signs(PageStem(idx), primary, subs), idx, 1, written)

-----------------------------------------------------------------------------
(* app.py: upload requests served at the same time *)

\* one directory under UPLOAD_FOLDER that every session uses
session_dirShared(session_id) == 0

\* session_dir = UPLOAD_FOLDER / session_id; its maps and its signs directory
\* are output_dir_maps and output_dir_signs of the request
session_dir(session_id) == session_id

\* mkdir(parents=True, exist_ok=True) of a directory in a tree of directories
mkdir(tree, d) == IF d \in DOMAIN tree THEN tree ELSE tree @@ (d :> <<>>)

\* extract_signs on page_<idx>.jpg of a page with one sign: the crop written
\* holds what was cut from the image that was read
extract_signs_from(signs, idx, file) ==
    [f \in DOMAIN signs \cup {CropName(PageStem(idx), PrimaryId(0))} |->
        IF f = CropName(PageStem(idx), PrimaryId(0)) THEN file ELSE signs[f]]

-----------------------------------------------------------------------------
(* HSVColorMask *)

\* the pixels <<x, y>> of an image of width x height pixels; a mask is the
\* set of the pixels of its image that are 255
ImagePixels(width, height) ==
    {<<x, y>> : x \in 0..(width - 1), y \in 0..(height - 1)}
MaskPixels == ImagePixels(MaskWidth, MaskHeight)

\* HSVColorMask.__init__: lower and upper <<H, S, V>> of each colour
red1 == [lo |-> <<0, 90, 90>>, hi |-> <<10, 255, 255>>]
red2 == [lo |-> <<170, 90, 90>>, hi |-> <<179, 255, 255>>]
yellow == [lo |-> <<15, 80, 100>>, hi |-> <<40, 255, 255>>]
white == [lo |-> <<0, 0, 180>>, hi |-> <<179, 60, 255>>]

\* cv2.inRange: the pixels with every channel inside its range, ends included
inRange(hsv, range) ==
    {px \in DOMAIN hsv :
        \A ch \in 1..3 : range.lo[ch] <= hsv[px][ch] /\ hsv[px][ch] <= range.hi[ch]}

\* cv2.getStructuringElement(cv2.MORPH_ELLIPSE, (3, 3)): the centre and its four
\* direct neighbours
StructuringElement == {<<0, 0>>, <<1, 0>>, <<-1, 0>>, <<0, 1>>, <<0, -1>>}

\* the pixels of the image under the element placed on px
Under(image, px) ==
    {<<px[1] + d[1], px[2] + d[2]>> : d \in StructuringElement} \cap image

\* an erosion that takes what lies outside the image for background, so that
\* every pixel with the element reaching over the border is cleared
erodeBorderClears(image, mask) ==
    {px \in image :
        {<<px[1] + d[1], px[2] + d[2]>> : d \in StructuringElement} \subseteq mask}

\* cv2.dilate and cv2.erode with the default border: what lies outside the
\* image neither sets a pixel nor clears one
dilate(image, mask) == {px \in image : Under(image, px) \cap mask # {}}
erode(image, mask) == {px \in image : Under(image, px) \subseteq mask}

RECURSIVE dilate_iterations(_, _, _)
dilate_iterations(image, mask, iterations) ==
    IF iterations = 0 THEN mask
    ELSE dilate_iterations(image, dilate(image, mask), iterations - 1)

RECURSIVE erode_iterations(_, _, _)
erode_iterations(image, mask, iterations) ==
    IF iterations = 0 THEN mask
    ELSE erode_iterations(image, erode(image, mask), iterations - 1)

\* cv2.morphologyEx(mask, cv2.MORPH_CLOSE, k, iterations): the dilations, then
\* the erosions
MORPH_CLOSE(image, mask, iterations) ==
    erode_iterations(image, dilate_iterations(image, mask, iterations), iterations)

\* get_masks with the closed yellow mask taken out of the red edge as well
get_masksYellowSubtracted(hsv) ==
    LET image == DOMAIN hsv
        red == MORPH_CLOSE(image, inRange(hsv, red1) \cup inRange(hsv, red2), 2)
        yel == MORPH_CLOSE(image, inRange(hsv, yellow), 1)
        whi == MORPH_CLOSE(image, inRange(hsv, white), 1)
    IN  [red_edge |-> erode_iterations(image, (red \ yel) \ whi, 1),
         center_of_sign |-> yel \cup whi]

\* HSVColorMask.get_masks: the second assignment to red_edge replaces the
\* first, which took the closed yellow mask out of the closed red mask
get_masks(hsv) ==
    LET image == DOMAIN hsv
        red == MORPH_CLOSE(image, inRange(hsv, red1) \cup inRange(hsv, red2), 2)
        yel == MORPH_CLOSE(image, inRange(hsv, yellow), 1)
        whi == MORPH_CLOSE(image, inRange(hsv, white), 1)
        red_edge_first == red \ yel
        red_edge_second == red \ whi
    IN  [red_edge |-> erode_iterations(image, red_edge_second, 1),
         center_of_sign |-> yel \cup whi]

-----------------------------------------------------------------------------
(* Geometry_finder *)

\* cv2.boundingRect of a contour whose points span xmin..xmax and ymin..ymax
boundingRect(contour) ==
    [x |-> contour.xmin, y |-> contour.ymin,
     w |-> contour.xmax - contour.xmin + 1,
     h |-> contour.ymax - contour.ymin + 1]

\* plausible with a box of exactly the minimum area refused
plausibleAreaStrict(geom, Shape_edge) ==
    LET b == boundingRect(Shape_edge)
    IN  IF b.w * b.h <= geom.min_area THEN FALSE
        ELSE Max2(b.w, b.h) * geom.max_aspect_ratio.den
                 <= geom.max_aspect_ratio.num * Max2(1, Min2(b.w, b.h))

\* Geometry_finder.plausible: max_aspect_ratio is the fraction num/den
plausible(geom, Shape_edge) ==
    LET b == boundingRect(Shape_edge)
    IN  IF b.w * b.h < geom.min_area THEN FALSE
        ELSE Max2(b.w, b.h) * geom.max_aspect_ratio.den
                 <= geom.max_aspect_ratio.num * Max2(1, Min2(b.w, b.h))

\* the blob of the mask that holds px: the pixels joined to px through
\* neighbours, the diagonal ones included
Component(mask, px) ==
    LET Grow[blob \in SUBSET mask] ==
            LET grown == {q \in mask :
                             \E b \in blob : /\ q[1] - b[1] \in {-1, 0, 1}
                                             /\ q[2] - b[2] \in {-1, 0, 1}}
            IN  IF grown = blob THEN blob ELSE Grow[grown]
    IN  Grow[{px}]

\* cv2.findContours(mask, cv2.RETR_EXTERNAL, cv2.CHAIN_APPROX_SIMPLE) on a mask
\* none of whose blobs lies in a hole of another: one contour around every
\* blob, given as the extent of its points
findContours(mask) ==
    {LET blob == Component(mask, px)
     IN  [xmin |-> CHOOSE x \in {b[1] : b \in blob} : \A b \in blob : x <= b[1],
          ymin |-> CHOOSE y \in {b[2] : b \in blob} : \A b \in blob : y <= b[2],
          xmax |-> CHOOSE x \in {b[1] : b \in blob} : \A b \in blob : x >= b[1],
          ymax |-> CHOOSE y \in {b[2] : b \in blob} : \A b \in blob : y >= b[2]]
     : px \in mask}

\* extract_signs from the image read to the plausibility test of its loop:
\* get_masks on the HSV image, findContours on the red-edge mask, and plausible
\* on every contour found
plausible_contours(geom, hsv) ==
    LET red_edge == get_masks(hsv).red_edge
        Shape_edge == findContours(red_edge)
    IN  [red_edge |-> red_edge,
         Shape_edge |-> Shape_edge,
         plausible |-> {c \in Shape_edge : plausible(geom, c)}]

\* the extent of cv2.convexHull(c) is the extent of c: the hull adds no point
\* outside the smallest upright box around the contour
convexHull(contour) == contour

\* (mask[y:y+h, x:x+w] > 0).mean(): positive pixels over pixels of the slice
mean(positive, total) == [num |-> positive, den |-> total]

\* a < b for fractions with positive denominators
FracLess(a, b) == a.num * b.den < b.num * a.den

\* the contour loop body with a contour refused only when both fractions are low
validate_contourBothLow(geom, mins, c, centerCount, redCount) ==
    IF ~plausible(geom, c) THEN FALSE
    ELSE LET b == boundingRect(convexHull(c))
             total == b.w * b.h
         IN  ~(/\ FracLess(mean(centerCount, total), mins.min_center_frac)
               /\ FracLess(mean(redCount, total), mins.min_redrim_frac))

\* extract_signs, the body of the contour loop: TRUE when the contour reaches
\* save_crop, FALSE when a continue skips it. centerCount and redCount are the
\* positive pixels of center and red_edge inside the box of the convex hull.
validate_contour(geom, mins, c, centerCount, redCount) ==
    IF ~plausible(geom, c) THEN FALSE
    ELSE LET b == boundingRect(convexHull(c))
             total == b.w * b.h
         IN  ~(\/ FracLess(mean(centerCount, total), mins.min_center_frac)
               \/ FracLess(mean(redCount, total), mins.min_redrim_frac))

\* A yellow contour is given by what OpenCV measures on it: area is
\* cv2.contourArea, w and h the sides of cv2.minAreaRect, total_pixels the
\* pixels of the filled rotated rectangle and yellow_pixels those of them set in
\* the sub-sign mask.

\* is_rectangular without the test of the contour's share of its rectangle
is_rectangularNoFill(Shape_edge, min_area) ==
    LET w == Shape_edge.w
        h == Shape_edge.h
    IN  IF Shape_edge.area < min_area THEN [value |-> FALSE, at |-> "area"]
        ELSE IF w = 0 \/ h = 0 THEN [value |-> FALSE, at |-> "empty"]
        ELSE IF ~(/\ 23 * Max2(1, Min2(w, h)) <= 10 * Max2(w, h)
                  /\ Max2(w, h) <= 6 * Max2(1, Min2(w, h)))
             THEN [value |-> FALSE, at |-> "ratio"]
        ELSE [value |-> TRUE, at |-> "fill"]

\* is_rectangular refusing an area of exactly min_area and the two ends of the
\* range of side ratios
is_rectangularStrict(Shape_edge, min_area) ==
    LET w == Shape_edge.w
        h == Shape_edge.h
        rect_area == w * h
    IN  IF Shape_edge.area <= min_area THEN [value |-> FALSE, at |-> "area"]
        ELSE IF w = 0 \/ h = 0 THEN [value |-> FALSE, at |-> "empty"]
        ELSE IF ~(/\ 23 * Max2(1, Min2(w, h)) < 10 * Max2(w, h)
                  /\ Max2(w, h) < 6 * Max2(1, Min2(w, h)))
             THEN [value |-> FALSE, at |-> "ratio"]
        ELSE [value |-> IF rect_area > 0
                        THEN 100 * Shape_edge.area > 72 * rect_area
                        ELSE FALSE,
              at |-> "fill"]

\* Geometry_finder.is_rectangular: value is what it returns, at names the
\* return statement taken. 2.3 is 23/10 and 0.72 is 72/100.
is_rectangular(Shape_edge, min_area) ==
    LET w == Shape_edge.w
        h == Shape_edge.h
        rect_area == w * h
    IN  IF Shape_edge.area < min_area THEN [value |-> FALSE, at |-> "area"]
        ELSE IF w = 0 \/ h = 0 THEN [value |-> FALSE, at |-> "empty"]
        ELSE IF ~(/\ 23 * Max2(1, Min2(w, h)) <= 10 * Max2(w, h)
                  /\ Max2(w, h) <= 6 * Max2(1, Min2(w, h)))
             THEN [value |-> FALSE, at |-> "ratio"]
        ELSE [value |-> IF rect_area > 0
                        THEN 100 * Shape_edge.area > 72 * rect_area
                        ELSE FALSE,
              at |-> "fill"]

\* extract_subsigns, the body of the contour loop: TRUE when the contour
\* reaches save_crop. 0.40 is 40/100.
extract_subsign(c) ==
    IF is_rectangular(c, 700).value
    THEN IF c.total_pixels > 0
         THEN 100 * c.yellow_pixels > 40 * c.total_pixels
         ELSE FALSE
    ELSE FALSE

-----------------------------------------------------------------------------
(* app.py *)

ALLOWED_EXTENSIONS == {<<"p", "d", "f">>}

\* str.lower on the characters of the names
LowerChar(ch) ==
    CASE ch = "P" -> "p"
      [] ch = "D" -> "d"
      [] ch = "F" -> "f"
      [] OTHER -> ch
lower(str) == [k \in 1..Len(str) |-> LowerChar(str[k])]

\* "." in filename
HasDot(filename) == \E k \in 1..Len(filename) : filename[k] = "."

\* filename.rsplit(".", 1)[1] of a name with a dot: what follows the last dot
rsplit_last(filename) ==
    LET at == CHOOSE k \in 1..Len(filename) :
                  /\ filename[k] = "."
                  /\ \A j \in (k + 1)..Len(filename) : filename[j] # "."
    IN  SubSeq(filename, at + 1, Len(filename))

\* allowed_file accepting every name that ends in pdf, dot or not
allowed_fileAnySuffix(filename) ==
    /\ Len(filename) >= 3
    /\ lower(SubSeq(filename, Len(filename) - 2, Len(filename))) \in ALLOWED_EXTENSIONS

\* app.allowed_file
allowed_file(filename) ==
    HasDot(filename) /\ lower(rsplit_last(filename)) \in ALLOWED_EXTENSIONS

\* werkzeug secure_filename on names of letters and dots: the dots at both
\* ends are stripped
RECURSIVE secure_filename(_)
secure_filename(filename) ==
    IF filename = <<>> THEN <<>>
    ELSE IF Head(filename) = "." THEN secure_filename(Tail(filename))
    ELSE IF filename[Len(filename)] = "."
         THEN secure_filename(SubSeq(filename, 1, Len(filename) - 1))
    ELSE filename

\* the JSON body of a response: which keys it has, the sign list under
\* 'signs' and the value under 'session_id' (none when the key is absent)
NoBody == [error |-> FALSE, signs |-> "None", session_id |-> {}]
ErrorBody == [error |-> TRUE, signs |-> "None", session_id |-> {}]

\* process_pdf(pdf_path, session_id): `results, None` when the three steps ran
\* through, and from `except Exception as e` the pair `None, str(e)`, whose
\* second part is the empty string for an exception raised without a message
process_pdf(outcome) ==
    CASE outcome = "error" -> [results |-> "None", error |-> "message", raised |-> TRUE]
      [] outcome = "error without message" ->
            [results |-> "None", error |-> "", raised |-> TRUE]
      [] outcome = "empty" -> [results |-> "[]", error |-> "None", raised |-> FALSE]
      [] OTHER -> [results |-> "[sign]", error |-> "None", raised |-> FALSE]

\* the truth value Python gives None, the empty string and the empty list
Truthy(value) == value \notin {"None", "", "[]"}

\* app.upload_file on a request, with session_id the fresh uuid and outcome
\* what happens inside the try block: the new status and body, directories,
\* saved files and pipeline runs. file.save (FileStorage.save) opens the
\* destination and then copies the stream: when open raises no file is made,
\* when the copy raises the file stays at pdf_path
upload_file(req, sessions, saved, runs, session_id, outcome) ==
    IF ~req.has_file
    THEN [status |-> 400, body |-> ErrorBody, raised |-> FALSE,
          sessions |-> sessions, saved |-> saved, runs |-> runs]
    ELSE IF req.filename = <<>>
    THEN [status |-> 400, body |-> ErrorBody, raised |-> FALSE,
          sessions |-> sessions, saved |-> saved, runs |-> runs]
    ELSE IF ~allowed_file(req.filename)
    THEN [status |-> 400, body |-> ErrorBody, raised |-> FALSE,
          sessions |-> sessions, saved |-> saved, runs |-> runs]
    ELSE LET pdf_path == <<session_id, secure_filename(req.filename)>>
             returned == process_pdf(outcome)
             after_run == [sessions |-> sessions \cup {session_id},
                           saved |-> saved \cup {pdf_path},
                           runs |-> runs \cup {session_id},
                           raised |-> returned.raised]
         IN  CASE outcome = "mkdir raises" ->
                    [status |-> 500, body |-> ErrorBody, raised |-> FALSE,
                     sessions |-> sessions, saved |-> saved, runs |-> runs]
               [] outcome = "save raises" ->
                    [status |-> 500, body |-> ErrorBody, raised |-> FALSE,
                     sessions |-> sessions \cup {session_id},
                     saved |-> saved, runs |-> runs]
               [] outcome = "save raises while copying" ->
                    [status |-> 500, body |-> ErrorBody, raised |-> FALSE,
                     sessions |-> sessions \cup {session_id},
                     saved |-> saved \cup {pdf_path}, runs |-> runs]
               [] Truthy(returned.error) ->
                    after_run @@ [status |-> 500, body |-> ErrorBody]
               [] ~Truthy(returned.results) ->
                    after_run @@
                    [status |-> 200,
                     body |-> [error |-> FALSE, signs |-> "[]", session_id |-> {}]]
               [] OTHER ->
                    after_run @@
                    [status |-> 200,
                     body |-> [error |-> FALSE, signs |-> returned.results,
                               session_id |-> {session_id}]]

-----------------------------------------------------------------------------
(* Inputs *)

DescValues == 0..(Pow2(DescBits) - 1)

\* feature lists, up to the order of their descriptors
FeatureLists(maxLen) ==
    UNION {{s \in [1..n -> DescValues] : \A k \in 1..(n - 1) : s[k] <= s[k + 1]}
              : n \in 0..maxLen}

Files(maxLen) ==
    {Unreadable} \cup {[readable |-> TRUE, features |-> s] : s \in FeatureLists(maxLen)}

Ratios == {[num |-> 3, den |-> 4], [num |-> 1, den |-> 2]}
OrbConfigs ==
    [nfeatures : {2, MaxDesc}, ratio : Ratios, min_good : {0, 2, MaxDesc + 1}]

\* the configuration of a run, scaled to the model's images
PipelineOrbs == [nfeatures : {MaxDesc}, ratio : {[num |-> 3, den |-> 4]}, min_good : {2}]

\* ORB_maps(nfeatures=20000, ratio=0.75, min_good=12000) of process_pdf, at
\* the scale of the page images
process_pdf_orb == CHOOSE o \in PipelineOrbs : TRUE

\* a page with two distinct corners, a page with one repeated corner
PageAB == [readable |-> TRUE, features |-> <<0, 3>>]
PageAA == [readable |-> TRUE, features |-> <<0, 0>>]
PageBlank == [readable |-> TRUE, features |-> <<>>]

\* the pages a PDF may hold: what the detector finds and how much text OCR reads
PageImages == {PageAB, PageAA, PageBlank}
CharSamples == {500, 501}
Pages == [file : PageImages, chars : CharSamples]

NoPage == [name |-> 0, page |-> [file |-> PageBlank, chars |-> 0],
           outcome |-> "none", compared |-> <<>>]

\* the boxes cv2.boundingRect yields in an image of this size
BoundingBoxes(w, h) ==
    {b \in [left : 0..(w - 1), top : 0..(h - 1), width : 1..w, height : 1..h] :
        b.left + b.width <= w /\ b.top + b.height <= h}

\* the indices at which a page's red-edge contours pass validation, and its
\* yellow contours
PrimaryIndices == (0..(MaxContours - 1)) \cup (899..(899 + MaxContours))
SubSignIndices == 0..(MaxContours - 1)

\* Geometry_finder(): the defaults 80*80 and 2.0, and a second setting
DefaultGeometry == [min_area |-> 80 * 80, max_aspect_ratio |-> [num |-> 2, den |-> 1]]
Geometries ==
    {DefaultGeometry, [min_area |-> 100, max_aspect_ratio |-> [num |-> 3, den |-> 2]]}

\* the contours of a canvas, as the extent of their points
Contours(canvas) ==
    [xmin : {0}, ymin : {0}, xmax : 0..(canvas - 1), ymax : 0..(canvas - 1)]

\* extract_signs(): the defaults 0.05 and 0.05, and a second setting
DefaultMins ==
    [min_center_frac |-> [num |-> 5, den |-> 100],
     min_redrim_frac |-> [num |-> 5, den |-> 100]]
MinFractions ==
    {DefaultMins, [min_center_frac |-> [num |-> 1, den |-> 10],
                   min_redrim_frac |-> [num |-> 1, den |-> 4]]}

\* contours around the plausibility limits
ValidateSides == {79, 80, 81, 160}
ValidateContours ==
    {c \in Contours(MaxBoxSide) :
        /\ boundingRect(c).w \in ValidateSides
        /\ boundingRect(c).h \in ValidateSides}

\* pixel counts around a fraction of the box, and the extremes
CountSamples(total, frac) ==
    LET at == (total * frac.num) \div frac.den
    IN  {0, at - 1, at, at + 1, total} \cap (0..total)

\* an external contour of red_edge is made of positive pixels and reaches all
\* four sides of its box
RedSamples(c, frac) ==
    LET b == boundingRect(c)
    IN  {k \in CountSamples(b.w * b.h, frac) : k >= Max2(b.w, b.h)}
           \cup {Max2(b.w, b.h)}

\* sides of the rotated rectangle of a yellow contour: a short side with long
\* sides around the ratios 2.3 and 6.0, in both orders
SubShort == 20
SubLong == {45, 46, 47, 60, 119, 120, 121}
SubRects ==
    {<<SubShort, l>> : l \in SubLong} \cup {<<l, SubShort>> : l \in SubLong}

\* values around a percentage of a quantity, and the extremes
Around(total, percent) ==
    LET at == (total * percent) \div 100
    IN  {at - 1, at, at + 1} \cap (0..total)

\* a contour lies inside its rectangle; the filled rectangle of an upright
\* w x h rectangle has (w + 1) * (h + 1) pixels
YellowContours ==
    UNION {
        LET w == r[1]
            h == r[2]
            total == (w + 1) * (h + 1)
        IN  [w : {w}, h : {h},
             area : ({699, 700, 701, w * h} \cup Around(w * h, 72)) \cap (0..(w * h)),
             total_pixels : {total},
             yellow_pixels : Around(total, 40) \cup Around(total, 72)
                                \cup {total \div 2, total}]
        : r \in SubRects}

\* <<H, S, V>> of a pixel of each colour, and of one of none of them
ColouredPx == {<<5, 200, 200>>, <<175, 200, 200>>, <<30, 200, 200>>, <<0, 0, 255>>}
OtherPx == <<100, 200, 200>>

\* the images with at most MaxColoured pixels that are red, yellow or white
HsvImages ==
    UNION {
        {[px \in MaskPixels |-> IF px \in S THEN f[px] ELSE OtherPx] :
            f \in [S -> ColouredPx]}
        : S \in {T \in SUBSET MaskPixels : Cardinality(T) <= MaxColoured}}

\* Geometry_finder(minimum_area=...) with the area of the whole small page,
\* and with that of a square one pixel shorter, as the minimum
CanvasGeometries ==
    {[min_area |-> side * side, max_aspect_ratio |-> [num |-> 2, den |-> 1]] :
        side \in {CanvasSide - 1, CanvasSide}}

\* a shape on the small page: a rectangle of w x h pixels at <<x, y>>, red all
\* over or red with all but a rim of one pixel white
CanvasShapes ==
    {shape \in [x : 0..(CanvasSide - 1), y : 0..(CanvasSide - 1),
                w : 1..CanvasSide, h : 1..CanvasSide, centre : {"red", "white"}] :
        shape.x + shape.w <= CanvasSide /\ shape.y + shape.h <= CanvasSide}

\* how far right and down the shape lies on the page of doubled size: where
\* it was, or moved by half the small page
CanvasOffsets == {0, CanvasSide \div 2}

\* <<H, S, V>> of a red and of a white pixel
RedPx == <<5, 200, 200>>
WhitePx == <<0, 0, 255>>

\* cv2.imread and cv2.cvtColor of a page of side x side pixels that shows the
\* shape moved by offset on a ground of no sign colour
DrawnHsv(side, shape, offset) ==
    [px \in ImagePixels(side, side) |->
        LET dx == px[1] - offset - shape.x
            dy == px[2] - offset - shape.y
        IN  IF dx \in 0..(shape.w - 1) /\ dy \in 0..(shape.h - 1)
            THEN IF /\ shape.centre = "white"
                    /\ dx \in 1..(shape.w - 2) /\ dy \in 1..(shape.h - 2)
                 THEN WhitePx ELSE RedPx
            ELSE OtherPx]

\* the characters of uploaded file names, and the names
NameChars == {"p", "d", "f", "P", ".", "t"}
FileNames == UNION {[1..len -> NameChars] : len \in 0..MaxNameLen}

\* a request without a file part, or with one of some name
Requests ==
    {[has_file |-> FALSE, filename |-> <<>>]}
        \cup [has_file : {TRUE}, filename : FileNames]

\* what the try block of upload_file can end in: an exception of mkdir or of
\* file.save, and the returns of process_pdf
ProcessPdfOutcomes == {"error", "error without message", "empty", "signs"}

SaveOutcomes == {"save raises", "save raises while copying"}

UploadOutcomes ==
    {"mkdir raises"} \cup SaveOutcomes \cup ProcessPdfOutcomes

\* the contours of a mined page that pass validation: none or the first, in
\* the red-edge pass and in the yellow pass
MinedPrimary == {{}, {0}}
MinedSubs == {{}, {0}}

\* configurations that ask for two good pairs, or for as many as the largest
\* image has descriptors
DirectionOrbs ==
    [nfeatures : {MaxDesc}, ratio : {[num |-> 3, den |-> 4]}, min_good : {2, MaxDesc}]

-----------------------------------------------------------------------------
(* Variables a specification does not use stay at these values *)

DirectionIdle ==
    /\ dA = Unreadable /\ dB = Unreadable
    /\ dOrb = [nfeatures |-> 0, ratio |-> [num |-> 0, den |-> 1], min_good |-> 0]
    /\ dDone = TRUE /\ dMatch = FALSE /\ dScan = FALSE

RerunIdle ==
    /\ rEarlier = <<>> /\ rPdf = <<>> /\ rAfterFirst = <<>>

ConcurrentIdle ==
    /\ qPdf = <<>> /\ qSid = <<>> /\ qPc = <<>> /\ qI = <<>> /\ qFiles = <<>>
    /\ qImg = <<>> /\ qText = <<>> /\ qCand = <<>> /\ qJ = <<>>
    /\ qMaps = <<>> /\ qSigns = <<>> /\ qTouched = <<>>

MineIdle ==
    /\ filesSorted = <<>> /\ minePos = 0 /\ signsDir = <<>>
    /\ mined = <<>> /\ textHeavy = {}

UploadIdle ==
    /\ hReq = [has_file |-> FALSE, filename |-> <<>>]
    /\ hDone = TRUE /\ hStatus = 0
    /\ hSessions = {} /\ hSaved = {} /\ hRuns = {}
    /\ hBody = NoBody /\ hRaised = FALSE /\ hPc = "off"

MaskIdle ==
    /\ kImage = <<>> /\ kDone = TRUE /\ kRedEdge = {} /\ kCenter = {}

SubIdle ==
    /\ uCand = [w |-> 0, h |-> 0, area |-> 0, total_pixels |-> 0, yellow_pixels |-> 0]
    /\ uDone = TRUE
    /\ uRect = [value |-> FALSE, at |-> "area"]
    /\ uExported = FALSE

ValIdle ==
    /\ vMins = DefaultMins
    /\ vContour = [xmin |-> 0, ymin |-> 0, xmax |-> 0, ymax |-> 0]
    /\ vCenter = 0 /\ vRed = 0 /\ vDone = TRUE /\ vExported = FALSE

GeomIdle ==
    /\ gGeom = DefaultGeometry /\ gCanvas = 0
    /\ gContour = [xmin |-> 0, ymin |-> 0, xmax |-> 0, ymax |-> 0]
    /\ gDone = TRUE /\ gResult = FALSE

NoContours == [red_edge |-> {}, Shape_edge |-> {}, plausible |-> {}]

CanvasIdle ==
    /\ bShape = [x |-> 0, y |-> 0, w |-> 1, h |-> 1, centre |-> "red"]
    /\ bGeom = DefaultGeometry /\ bOffset = 0
    /\ bDone = TRUE /\ bSmall = NoContours /\ bDoubled = NoContours

CropIdle ==
    /\ cW = 0 /\ cH = 0 /\ cPad = 0 /\ cDone = TRUE
    /\ cBox = [left |-> 0, top |-> 0, width |-> 0, height |-> 0]
    /\ cCrop = [left |-> 0, top |-> 0, right |-> 0, bottom |-> 0]

ExtractIdle == eFiles = <<>> /\ eMined = 0

TextIdle == tChars = 0 /\ tDone = TRUE /\ tResult = FALSE

PipeIdle ==
    /\ dir = <<>> /\ pc = "off" /\ run = 0 /\ i = 0 /\ nPages = 0
    /\ Orb = [nfeatures |-> 0, ratio |-> [num |-> 0, den |-> 1], min_good |-> 0]
    /\ last = NoPage /\ rejected = {}

MatchIdle ==
    /\ mA = Unreadable /\ mB = Unreadable
    /\ mOrb = [nfeatures |-> 0, ratio |-> [num |-> 0, den |-> 1], min_good |-> 0]
    /\ mDone = TRUE /\ mResult = FALSE

ScanIdle ==
    /\ sFs = <<>> /\ sIsDir = FALSE /\ sCand = 0
    /\ sOrb = [nfeatures |-> 0, ratio |-> [num |-> 0, den |-> 1], min_good |-> 0]
    /\ sDone = TRUE /\ sResult = FALSE /\ sCompared = <<>>

-----------------------------------------------------------------------------
(* ORB_maps.matches on one pair of images *)

InitMatches ==
    /\ DirectionIdle /\ MineIdle /\ UploadIdle /\ MaskIdle /\ SubIdle
    /\ ValIdle /\ GeomIdle /\ PipeIdle /\ TextIdle /\ CropIdle /\ ExtractIdle
    /\ ScanIdle /\ RerunIdle /\ ConcurrentIdle /\ CanvasIdle
    /\ mA \in Files(MaxDesc)
    /\ mB \in Files(MaxTrainDesc)
    /\ mOrb \in OrbConfigs
    /\ mDone = FALSE
    /\ mResult = FALSE

RunMatches ==
    /\ ~mDone
    /\ mDone' = TRUE
    /\ mResult' = matches(mOrb, mA, mB)
    /\ UNCHANGED <<mA, mB, mOrb, scanVars, pipeVars, cropVars, extractVars,
                   textVars, geomVars, valVars, subVars, maskVars, uploadVars,
                   mineVars, dirnVars, rerunVars, concVars, canvasVars>>

NextMatches == RunMatches

SpecMatches == InitMatches /\ [][NextMatches]_vars

\* the descriptors the detector yields for a file under the run's configuration
Des(file, orb) == detectAndCompute(preprocess_image(file), orb.nfeatures)
FewDescriptors(file, orb) == Des(file, orb).none \/ Len(Des(file, orb).des) < 2

\* C5: matches(A, B) is false whenever either image yields no descriptors or
\* fewer than 2 descriptors, whatever ratio and min_good are (min_good = 0 too).
C5_FewDescriptorsNoMatch ==
    (mDone /\ (FewDescriptors(mA, mOrb) \/ FewDescriptors(mB, mOrb)))
        => mResult = FALSE

C5_Witness ==
    /\ mDone
    /\ mOrb.min_good = 0
    /\ ~FewDescriptors(mA, mOrb)
    /\ ~Des(mB, mOrb).none /\ Len(Des(mB, mOrb).des) = 1
    /\ mResult = FALSE

\* descriptor q of A is good: its nearest neighbour in B is strictly nearer
\* than ratio times every other descriptor of B
IsGood(a, desB, ratio) ==
    \E j \in 1..Len(desB) : \A k \in (1..Len(desB)) \ {j} :
        Hamming(a, desB[j]) * ratio.den < ratio.num * Hamming(a, desB[k])
GoodCount(desA, desB, ratio) ==
    Cardinality({q \in 1..Len(desA) : IsGood(desA[q], desB, ratio)})

\* C6: with at least 2 descriptors on both sides, matches(A, B) is true exactly
\* when the number of good descriptors of A is at least min_good; with
\* min_good = 0 it is always true.
C6_MatchIffEnoughGood ==
    (mDone /\ ~FewDescriptors(mA, mOrb) /\ ~FewDescriptors(mB, mOrb))
        => /\ mResult = (GoodCount(Des(mA, mOrb).des, Des(mB, mOrb).des, mOrb.ratio)
                           >= mOrb.min_good)
           /\ (mOrb.min_good = 0 => mResult = TRUE)

C6_Witness ==
    /\ mDone
    /\ ~FewDescriptors(mA, mOrb) /\ ~FewDescriptors(mB, mOrb)
    /\ mOrb.min_good = 2
    /\ GoodCount(Des(mA, mOrb).des, Des(mB, mOrb).des, mOrb.ratio) = 2
    /\ mResult = TRUE

-----------------------------------------------------------------------------
(* The direction of matching: candidate page A against corpus file B *)

InitDirection ==
    /\ PipeIdle /\ MatchIdle /\ ScanIdle /\ CropIdle /\ ExtractIdle /\ TextIdle
    /\ GeomIdle /\ ValIdle /\ SubIdle /\ MaskIdle /\ UploadIdle /\ MineIdle
    /\ RerunIdle /\ ConcurrentIdle /\ CanvasIdle
    /\ dA \in Files(MaxTrainDesc)
    /\ dB \in Files(MaxDesc)
    /\ dOrb \in DirectionOrbs
    /\ dDone = FALSE
    /\ dMatch = FALSE
    /\ dScan = FALSE

\* matches(A, B), and check_mach_old_map for A saved as page 1 beside B, in
\* either order of the listing
RunDirection ==
    /\ ~dDone
    /\ dDone' = TRUE
    /\ dMatch' = matches(dOrb, dA, dB)
    /\ \E candidates \in {<<1, 2>>, <<2, 1>>} :
          dScan' = check_mach_old_map(dOrb, 1,
                      [p \in {1, 2} |->
                          [file |-> IF p = 1 THEN dA ELSE dB, chars |-> 0,
                           jpg |-> TRUE]],
                      TRUE, candidates).result
    /\ UNCHANGED <<dA, dB, dOrb, pipeVars, matchVars, scanVars, cropVars,
                   extractVars, textVars, geomVars, valVars, subVars, maskVars,
                   uploadVars, mineVars, rerunVars, concVars, canvasVars>>

NextDirection == RunDirection

SpecDirection == InitDirection /\ [][NextDirection]_vars

\* the number of descriptors of an image, none counting as zero
DescCount(file) ==
    LET d == detectAndCompute(preprocess_image(file), dOrb.nfeatures)
    IN  IF d.none THEN 0 ELSE Len(d.des)
DescOf(file) == detectAndCompute(preprocess_image(file), dOrb.nfeatures).des

\* C28: good pairs are counted over the descriptors of the first image only,
\* so the good count never exceeds A's descriptor count and matches(A, B) is
\* false whenever A has fewer than min_good descriptors, whatever B is; in a
\* duplicate scan the candidate page is A and the corpus file is B.
C28_GoodCountBoundedByFirstImage ==
    dDone =>
        /\ (DescCount(dA) >= 2 /\ DescCount(dB) >= 2) =>
              Cardinality(GoodMatches(knnMatch(DescOf(dA), DescOf(dB)), dOrb.ratio))
                  <= DescCount(dA)
        /\ DescCount(dA) < dOrb.min_good => (~dMatch /\ ~dScan)
        /\ dScan = dMatch

\* A has two descriptors, B has three that all find a good pair in A, three
\* good pairs are asked for: B matches A, A does not match B
C28_Witness ==
    /\ dDone
    /\ dOrb.min_good = 3
    /\ DescCount(dA) = 2 /\ DescCount(dB) = 3
    /\ Cardinality(GoodMatches(knnMatch(DescOf(dB), DescOf(dA)), dOrb.ratio)) = 3
    /\ ~dMatch /\ ~dScan

-----------------------------------------------------------------------------
(* MapExtractor.check_mach_old_map on one candidate and one directory *)

ScanFiles == {Unreadable, PageAB, PageAA}
DirEntries == [file : ScanFiles, jpg : BOOLEAN]
Directories == UNION {[D -> DirEntries] : D \in SUBSET (1..MaxFiles)}

InitScan ==
    /\ DirectionIdle /\ MineIdle /\ UploadIdle /\ MaskIdle /\ SubIdle
    /\ ValIdle /\ GeomIdle /\ PipeIdle /\ TextIdle /\ CropIdle /\ ExtractIdle
    /\ MatchIdle /\ RerunIdle /\ ConcurrentIdle /\ CanvasIdle
    /\ sIsDir \in BOOLEAN
    /\ sFs \in (IF sIsDir THEN Directories ELSE {<<>>})
    /\ sCand \in 1..MaxFiles
    /\ sOrb \in PipelineOrbs
    /\ sDone = FALSE
    /\ sResult = FALSE
    /\ sCompared = <<>>

RunScan ==
    /\ ~sDone
    /\ \E candidates \in GlobOrders(sFs) :
          LET r == check_mach_old_map(sOrb, sCand, sFs, sIsDir, candidates)
          IN  /\ sResult' = r.result
              /\ sCompared' = r.compared
    /\ sDone' = TRUE
    /\ UNCHANGED <<sFs, sIsDir, sCand, sOrb, matchVars, pipeVars, cropVars,
                   extractVars, textVars, geomVars, valVars, subVars, maskVars,
                   uploadVars, mineVars, dirnVars, rerunVars, concVars,
                   canvasVars>>

NextScan == RunScan

SpecScan == InitScan /\ [][NextScan]_vars

\* the corpus files of a scan: the .jpg paths other than the candidate's own
CorpusPaths == JpgPaths(sFs) \ {sCand}
IsMatch(p) == matches(sOrb, FileAt(sFs, sCand), FileAt(sFs, p))

\* C7: the scan returns true exactly when some *.jpg file of the directory other
\* than the candidate's own path matches the candidate; the candidate is never
\* compared with itself; no file is compared after the first successful match.
C7_DuplicateIffSomeMatch ==
    sDone =>
        /\ sResult = (\E p \in CorpusPaths : IsMatch(p))
        /\ \A k \in 1..Len(sCompared) : sCompared[k] # sCand
        /\ \A k \in 1..(Len(sCompared) - 1) : ~IsMatch(sCompared[k])

C7_Witness ==
    /\ sDone /\ sResult = TRUE
    /\ sCand \in JpgPaths(sFs)
    /\ IsMatch(sCand)
    /\ Cardinality(CorpusPaths) = 2
    /\ Len(sCompared) = 1

\* C8: a comparison with an unreadable candidate or corpus file counts as no
\* match, and the scan goes on: every corpus file is compared unless a match
\* ended the scan, so a readable duplicate listed after an unreadable file is
\* still found.
C8_UnreadableIsNoMatch ==
    sDone =>
        /\ \A k \in 1..Len(sCompared) :
              (~FileAt(sFs, sCompared[k]).readable \/ ~FileAt(sFs, sCand).readable)
                  => (k < Len(sCompared) \/ sResult = FALSE)
        /\ sResult = FALSE =>
              {sCompared[k] : k \in 1..Len(sCompared)} = CorpusPaths
        /\ (\E p \in CorpusPaths : IsMatch(p)) => sResult = TRUE

C8_Witness ==
    /\ sDone /\ sResult = TRUE
    /\ Len(sCompared) = 2
    /\ ~FileAt(sFs, sCompared[1]).readable
    /\ FileAt(sFs, sCompared[2]).readable

-----------------------------------------------------------------------------
(* Runs of MapExtractor.pdf_To_image into one output directory *)

\* the output directory is empty, or already holds one older map, old_map.jpg
\* (path 0), that no run of pdf_To_image writes
Init ==
    /\ DirectionIdle /\ MineIdle /\ UploadIdle /\ MaskIdle /\ SubIdle
    /\ ValIdle /\ GeomIdle /\ MatchIdle /\ TextIdle /\ ScanIdle /\ CropIdle
    /\ ExtractIdle /\ RerunIdle /\ ConcurrentIdle /\ CanvasIdle
    /\ dir \in {<<>>} \cup {[p \in {0} |-> [file |-> f, chars |-> 0, jpg |-> TRUE]] :
                                f \in PageImages \cup {Unreadable}}
    /\ Orb \in PipelineOrbs
    /\ pc = "idle"
    /\ run = 0 /\ i = 0 /\ nPages = 0
    /\ last = NoPage
    /\ rejected = {}

\* pdf_To_image is called: convert_from_path yields the pages of the PDF
StartRun ==
    /\ pc \in {"idle", "done"}
    /\ run < MaxRuns
    /\ run' = run + 1
    /\ \E pages \in 0..MaxPages :
          /\ nPages' = pages
          /\ pc' = IF pages = 0 THEN "done" ELSE "pages"
    /\ i' = 1
    /\ last' = NoPage
    /\ rejected' = {}
    /\ UNCHANGED <<dir, Orb, matchVars, scanVars, cropVars, extractVars,
                   textVars, geomVars, valVars, subVars, maskVars, uploadVars,
                   mineVars, dirnVars, rerunVars, concVars, canvasVars>>

\* one iteration of the loop: page i is saved, filtered and kept or removed
HandlePage ==
    /\ pc = "pages"
    /\ i <= nPages
    /\ \E page \in Pages :
       \E candidates \in GlobOrders(page_save(dir, i, page)) :
          LET r == handle_page(Orb, dir, i, page, candidates)
          IN  /\ dir' = r.dir
              /\ last' = [name |-> i, page |-> page, outcome |-> r.outcome,
                          compared |-> r.compared]
              /\ rejected' = IF r.outcome = "kept" THEN rejected
                             ELSE rejected \cup {i}
    /\ i' = i + 1
    /\ pc' = IF i + 1 > nPages THEN "done" ELSE "pages"
    /\ UNCHANGED <<Orb, run, nPages, matchVars, scanVars, cropVars, extractVars,
                   textVars, geomVars, valVars, subVars, maskVars, uploadVars,
                   mineVars, dirnVars, rerunVars, concVars, canvasVars>>

Next == StartRun \/ HandlePage

Spec == Init /\ [][Next]_vars

\* C1: a page this run rejected, by the text filter or by the duplicate filter,
\* has no file page_<i>.jpg in the output directory once it has been handled.
C1_RejectedPageAbsent ==
    /\ \A p \in rejected : p \notin DOMAIN dir
    /\ last.outcome \in {"text", "dup"} => last.name \in rejected

\* the second run's page 1 replaced the page_1.jpg of the first run and was
\* then removed as a duplicate of page_2.jpg
C1_Witness ==
    /\ run = 2
    /\ last.outcome = "dup"
    /\ last.name = 1
    /\ DOMAIN dir = {2}

\* C2: a retained page matched no other *.jpg file present in the output
\* directory when it was checked.
C2_RetainedMatchesNothing ==
    last.outcome = "kept" =>
        /\ last.name \in DOMAIN dir
        /\ \A p \in JpgPaths(dir) \ {last.name} :
              ~matches(Orb, dir[last.name].file, dir[p].file)

\* page 2 is kept beside two other files; page 1 would match it, but the
\* comparison runs from the new page to the old ones only
C2_Witness ==
    /\ last.outcome = "kept"
    /\ last.name = 2
    /\ DOMAIN dir = {0, 1, 2}
    /\ matches(Orb, dir[1].file, dir[2].file)

\* C3: an accepted page file is never afterwards deleted or overwritten, across
\* any sequence of runs into the same output directory.
C3_AcceptedNeverLost ==
    [][\A p \in DOMAIN dir : p \in DOMAIN dir' /\ dir'[p] = dir[p]]_vars

\* C21: the text filter runs before the duplicate detector and each filter
\* drops and stops: a text-heavy page is deleted without any duplicate
\* comparison made for it, and the duplicate detector runs only for pages that
\* passed the text filter.
C21_TextFilterFirst ==
    /\ (last.name >= 1 /\ last.page.chars > 500) =>
          /\ last.outcome = "text"
          /\ last.compared = <<>>
          /\ last.name \notin DOMAIN dir
    /\ last.compared # <<>> => last.page.chars <= 500
    /\ last.outcome \in {"dup", "kept"} => last.page.chars <= 500
    /\ last.outcome = "dup" => last.name \notin DOMAIN dir

\* a text-heavy page dropped with no comparison although the directory holds
\* two files it could have been compared with
C21_Witness ==
    /\ last.outcome = "text"
    /\ last.name = 2
    /\ last.compared = <<>>
    /\ JpgPaths(dir) = {0, 1}

\* the files a page was compared with, and the first run into an empty directory
ComparedWith == {last.compared[k] : k \in DOMAIN last.compared}
FirstRunFromEmpty == run = 1 /\ 0 \notin DOMAIN dir /\ last.name >= 1

\* C22: duplicate comparison is order-dependent: in a run into an initially
\* empty directory page i is compared only with retained pages j < i, never
\* with a later page of the batch nor with a rejected page, so of two mutually
\* matching pages the earlier is kept and the later is removed.
C22_ComparedWithEarlierRetainedOnly ==
    FirstRunFromEmpty =>
        /\ \A j \in ComparedWith :
              j < last.name /\ j \notin rejected /\ j \in DOMAIN dir
        /\ \A j \in DOMAIN dir \ {last.name} :
              (/\ last.outcome # "text"
               /\ matches(Orb, last.page.file, dir[j].file)
               /\ matches(Orb, dir[j].file, last.page.file))
                 => /\ last.outcome = "dup"
                    /\ last.name \notin DOMAIN dir
                    /\ j < last.name

\* page 2 matches page 1 both ways: page 1 stays, page 2 is removed
C22_Witness ==
    /\ FirstRunFromEmpty
    /\ last.name = 2
    /\ last.outcome = "dup"
    /\ ComparedWith = {1}
    /\ DOMAIN dir = {1}
    /\ matches(Orb, dir[1].file, last.page.file)

-----------------------------------------------------------------------------
(* One pipeline run: pdf_To_image, the sorted listing, extract_signs per page *)

\* the map directory is empty or holds one older map, old_map.jpg; the sign
\* directory is empty
InitPipeline ==
    /\ DirectionIdle /\ MatchIdle /\ ScanIdle /\ CropIdle /\ ExtractIdle
    /\ TextIdle /\ GeomIdle /\ ValIdle /\ SubIdle /\ MaskIdle /\ UploadIdle
    /\ RerunIdle /\ ConcurrentIdle /\ CanvasIdle
    /\ dir \in {<<>>} \cup {[p \in {0} |-> [file |-> f, chars |-> 0, jpg |-> TRUE]] :
                                f \in PageImages \cup {Unreadable}}
    /\ Orb \in PipelineOrbs
    /\ pc = "convert"
    /\ run = 0 /\ i = 0 /\ nPages = 0
    /\ last = NoPage
    /\ rejected = {}
    /\ filesSorted = <<>> /\ minePos = 0 /\ signsDir = <<>>
    /\ mined = <<>> /\ textHeavy = {}

\* pdf_To_image is called and convert_from_path rasterizes every page of the
\* PDF; a PDF without pages takes the run straight to the listing
PipelineConvert ==
    /\ pc = "convert"
    /\ run' = run + 1
    /\ \E pages \in 0..MaxPages :
          /\ nPages' = pages
          /\ pc' = IF pages > 0 THEN "pages"
                   ELSE IF Files_sorted(dir) = <<>> THEN "done" ELSE "mine"
          /\ filesSorted' = IF pages > 0 THEN <<>> ELSE Files_sorted(dir)
    /\ i' = 1
    /\ minePos' = 1
    /\ UNCHANGED <<dir, Orb, last, rejected, signsDir, mined, textHeavy,
                   matchVars, scanVars, cropVars, extractVars, textVars,
                   geomVars, valVars, subVars, maskVars, uploadVars, dirnVars,
                   rerunVars, concVars, canvasVars>>

\* one iteration of the loop of pdf_To_image; after the last one pdf_To_image
\* returns and the page files are listed and sorted
PipelinePage ==
    /\ pc = "pages"
    /\ i <= nPages
    /\ \E page \in Pages :
       \E candidates \in GlobOrders(page_save(dir, i, page)) :
          LET r == handle_page(Orb, dir, i, page, candidates)
              goes_on == pdf_To_image_continues(i, nPages)
          IN  /\ dir' = r.dir
              /\ textHeavy' = IF page.chars > 500 THEN textHeavy \cup {i}
                              ELSE textHeavy
              /\ rejected' = IF r.outcome = "kept" THEN rejected
                             ELSE rejected \cup {i}
              /\ filesSorted' = IF goes_on THEN <<>> ELSE Files_sorted(r.dir)
              /\ pc' = IF goes_on THEN "pages"
                       ELSE IF Files_sorted(r.dir) = <<>> THEN "done" ELSE "mine"
    /\ i' = i + 1
    /\ UNCHANGED <<Orb, run, nPages, last, minePos, signsDir, mined,
                   matchVars, scanVars, cropVars, extractVars, textVars,
                   geomVars, valVars, subVars, maskVars, uploadVars, dirnVars,
                   rerunVars, concVars, canvasVars>>

\* one iteration of the loop over the sorted listing: extract_signs on the
\* next page file writes its crops, or raises after some of them and ends the
\* run (main.py stops, process_pdf returns the error)
PipelineMine ==
    /\ pc = "mine"
    /\ minePos <= Len(filesSorted)
    /\ \E primary \in MinedPrimary :
       \E subs \in MinedSubs :
       \E raises \in BOOLEAN :
       \E written \in 0..(Cardinality(primary) + Cardinality(subs)) :
          /\ ~raises => written = Cardinality(primary) + Cardinality(subs)
          /\ signsDir' = extract_signs_into(signsDir, filesSorted[minePos],
                                            primary, subs, written)
          /\ mined' = IF raises THEN mined ELSE Append(mined, filesSorted[minePos])
          /\ pc' = IF raises THEN "failed"
                   ELSE IF minePos + 1 > Len(filesSorted) THEN "done" ELSE "mine"
    /\ minePos' = minePos + 1
    /\ UNCHANGED <<dir, Orb, run, i, nPages, last, rejected, filesSorted,
                   textHeavy, matchVars, scanVars, cropVars, extractVars,
                   textVars, geomVars, valVars, subVars, maskVars, uploadVars,
                   dirnVars, rerunVars, concVars, canvasVars>>

\* the iteration of pdf_To_image whose OCR call raises: the exception leaves
\* pdf_To_image, main.py stops and process_pdf returns the error, the listing
\* and the sign extraction are never reached
PipelineOcrRaises ==
    /\ pc = "pages"
    /\ i <= nPages
    /\ \E page \in Pages : dir' = pdf_To_image_ocr_raises(dir, i, page)
    /\ pc' = "ocr failed"
    /\ UNCHANGED <<Orb, run, i, nPages, last, rejected, mineVars, matchVars,
                   scanVars, cropVars, extractVars, textVars, geomVars, valVars,
                   subVars, maskVars, uploadVars, dirnVars, rerunVars,
                   concVars, canvasVars>>

NextPipeline ==
    PipelineConvert \/ PipelinePage \/ PipelineOcrRaises \/ PipelineMine

SpecPipeline == InitPipeline /\ [][NextPipeline]_vars

MinedPages == {mined[k] : k \in DOMAIN mined}
CropPages == {signsDir[f].page : f \in DOMAIN signsDir}

\* C15: a page whose OCR text has more than 500 characters produces no sign
\* crop in the pipeline run, and its file page_<i>.jpg is gone before sign
\* extraction starts.
C15_TextHeavyPageYieldsNoCrop ==
    \A k \in textHeavy :
        /\ k \notin DOMAIN dir
        /\ k \notin {filesSorted[j] : j \in DOMAIN filesSorted}
        /\ k \notin MinedPages
        /\ k \notin CropPages

\* page 1 was text-heavy, page 2 was mined and gave crops
C15_Witness ==
    /\ pc = "done"
    /\ textHeavy = {1}
    /\ mined = <<2>>
    /\ CropPages = {2}

\* C16: when extract_signs raises on a page, every crop file written for the
\* pages processed before it is still present with unchanged content.
C16_FailureKeepsEarlierCrops ==
    [][pc' = "failed" =>
          \A f \in DOMAIN signsDir :
              f \in DOMAIN signsDir' /\ signsDir'[f] = signsDir[f]]_vars

\* extract_signs raised on page 2 after writing a crop; the crop of page 1 is
\* there beside it
C16_Witness ==
    /\ pc = "failed"
    /\ mined = <<1>>
    /\ CropPages = {1, 2}

\* C17 as claimed: an accepted page has been mined for signs before any step
\* of a later page happens.
C17_PageMinedBeforeNext ==
    \A j \in DOMAIN dir :
        (j >= 1 /\ j + 1 <= i - 1) => j \in MinedPages

\* C17, amended: the run is sequential in two phases: every page of the PDF is
\* saved and filtered, one at a time in page order, before sign extraction of
\* any page starts; the retained pages are then mined one at a time in
\* ascending page order.
C17_FilterAllThenMineInOrder ==
    /\ pc = "pages" => (mined = <<>> /\ signsDir = <<>> /\ filesSorted = <<>>)
    /\ (mined # <<>> \/ signsDir # <<>>) => i > nPages
    /\ \A j, k \in DOMAIN mined : j < k => mined[j] < mined[k]
    /\ \A k \in DOMAIN mined : mined[k] = filesSorted[k] /\ mined[k] \in DOMAIN dir
    /\ pc = "done" => MinedPages = {p \in JpgPaths(dir) : p >= 1}

\* both pages were retained and then mined, page 1 before page 2
C17_Witness ==
    /\ pc = "done"
    /\ nPages = 2
    /\ mined = <<1, 2>>

\* C23: in one run every retained page is run through sign extraction exactly
\* once (its primary pass followed by its sub-sign pass), the pages are mined in
\* ascending page number, and no page rejected in the run is mined.
C23_RetainedMinedOnceAscending ==
    /\ \A j, k \in DOMAIN mined : j < k => mined[j] < mined[k]
    /\ pc = "done" => MinedPages = {p \in JpgPaths(dir) : p >= 1}
    /\ MinedPages \cap rejected = {}
    /\ \A p \in CropPages :
          LET first == CropName(PageStem(p), PrimaryId(0))
              second == CropName(PageStem(p), SubSignId(0))
          IN  (first \in DOMAIN signsDir /\ second \in DOMAIN signsDir)
                  => signsDir[first].nth < signsDir[second].nth

\* page 1 was rejected as a duplicate of the old map; page 2 was retained and
\* mined, giving a primary and then a sub-sign crop
C23_Witness ==
    /\ pc = "done"
    /\ rejected = {1}
    /\ 1 \notin textHeavy
    /\ mined = <<2>>
    /\ CropPages = {2}
    /\ CropName(PageStem(2), PrimaryId(0)) \in DOMAIN signsDir
    /\ CropName(PageStem(2), SubSignId(0)) \in DOMAIN signsDir

\* C26: when OCR raises on page i the exception leaves pdf_To_image with no
\* retry: no page after i is written or filtered, nothing is mined, and
\* page_<i>.jpg stays in the output directory without having passed either
\* filter.
C26_OcrFailureLeavesUnfilteredPage ==
    pc = "ocr failed" =>
        /\ i \in JpgPaths(dir)
        /\ i \notin rejected /\ i \notin textHeavy
        /\ \A k \in DOMAIN dir \cup rejected \cup textHeavy : k <= i
        /\ filesSorted = <<>> /\ mined = <<>> /\ signsDir = <<>>
        /\ ~ENABLED NextPipeline

\* OCR raised on page 1 of 2: the file left behind has the image of the old
\* map, which the duplicate detector never got to compare it with
C26_Witness ==
    /\ pc = "ocr failed"
    /\ i = 1 /\ nPages = 2
    /\ 0 \in DOMAIN dir /\ 1 \in DOMAIN dir
    /\ dir[1].file = PageAB /\ dir[0].file = PageAB
    /\ DOMAIN dir = {0, 1}

-----------------------------------------------------------------------------
(* pdf_To_image on one PDF, then twice on another, into one output directory *)

\* the PDFs convert_from_path can rasterize: up to MaxPages pages
Pdfs == UNION {[1..n -> Pages] : n \in 0..MaxPages}

\* the PDF of a run: the first run has the earlier PDF, the two after it the
\* PDF that is run again
PdfOfRun(r) == IF r = 1 THEN rEarlier ELSE rPdf

InitRerun ==
    /\ DirectionIdle /\ MineIdle /\ UploadIdle /\ MaskIdle /\ SubIdle
    /\ ValIdle /\ GeomIdle /\ MatchIdle /\ TextIdle /\ ScanIdle /\ CropIdle
    /\ ExtractIdle /\ ConcurrentIdle /\ CanvasIdle
    /\ dir = <<>>
    /\ Orb \in PipelineOrbs
    /\ pc = "idle"
    /\ run = 0 /\ i = 0 /\ nPages = 0
    /\ last = NoPage
    /\ rejected = {}
    /\ rEarlier \in Pdfs
    /\ rPdf \in Pdfs \ {<<>>}
    /\ rAfterFirst = <<>>

\* pdf_To_image is called: convert_from_path rasterizes the pages of the PDF
RerunConvert ==
    /\ pc \in {"idle", "done"}
    /\ run < 3
    /\ run' = run + 1
    /\ nPages' = Len(PdfOfRun(run + 1))
    /\ pc' = IF Len(PdfOfRun(run + 1)) = 0 THEN "done" ELSE "pages"
    /\ i' = 1
    /\ UNCHANGED <<dir, Orb, last, rejected, rEarlier, rPdf, rAfterFirst,
                   matchVars, scanVars, cropVars, extractVars, textVars,
                   geomVars, valVars, subVars, maskVars, uploadVars, mineVars,
                   dirnVars, concVars, canvasVars>>

\* one iteration of the loop of pdf_To_image on the page the PDF has at i; OCR
\* and matches give what they gave before, glob lists in any order
RerunPage ==
    /\ pc = "pages"
    /\ i <= nPages
    /\ \E candidates \in GlobOrders(page_save(dir, i, PdfOfRun(run)[i])) :
          LET r == handle_page(Orb, dir, i, PdfOfRun(run)[i], candidates)
          IN  /\ dir' = r.dir
              /\ rAfterFirst' = IF run = 2 /\ i + 1 > nPages THEN r.dir
                                ELSE rAfterFirst
    /\ i' = i + 1
    /\ pc' = IF i + 1 > nPages THEN "done" ELSE "pages"
    /\ UNCHANGED <<Orb, run, nPages, last, rejected, rEarlier, rPdf,
                   matchVars, scanVars, cropVars, extractVars, textVars,
                   geomVars, valVars, subVars, maskVars, uploadVars, mineVars,
                   dirnVars, concVars, canvasVars>>

NextRerun == RerunConvert \/ RerunPage

SpecRerun == InitRerun /\ [][NextRerun]_vars

\* the page images of the two PDFs
RerunImages ==
    {rEarlier[k].file : k \in DOMAIN rEarlier} \cup {rPdf[k].file : k \in DOMAIN rPdf}

\* matches gives the same answer in both directions on every pair of them
MatchesSymmetric ==
    \A a, b \in RerunImages : matches(Orb, a, b) = matches(Orb, b, a)

\* C27: re-running pdf_To_image on the same PDF into the same output directory
\* is idempotent when OCR and matches are deterministic and matches is
\* symmetric: the retained page files after the second run are those after the
\* first run.
C27_RerunIdempotent ==
    (pc = "done" /\ run = 3 /\ MatchesSymmetric) => dir = rAfterFirst

-----------------------------------------------------------------------------
(* Two upload requests served at the same time, each running process_pdf *)

\* the two requests
Uploads == {1, 2}

\* the pages of the uploaded PDFs, each with one sign
UploadedPages ==
    {[file |-> PageAB, chars |-> 500], [file |-> PageBlank, chars |-> 500],
     [file |-> PageAB, chars |-> 501]}

UploadedPdfs == UNION {[1..n -> UploadedPages] : n \in 0..MaxPages}

InitConcurrent ==
    /\ DirectionIdle /\ MineIdle /\ UploadIdle /\ MaskIdle /\ SubIdle
    /\ ValIdle /\ GeomIdle /\ PipeIdle /\ MatchIdle /\ TextIdle /\ ScanIdle
    /\ CropIdle /\ ExtractIdle /\ RerunIdle /\ CanvasIdle
    /\ qPdf \in [Uploads -> UploadedPdfs]
    /\ qSid = [q \in Uploads |-> 0]
    /\ qPc = [q \in Uploads |-> "new"]
    /\ qI = [q \in Uploads |-> 0]
    /\ qFiles = [q \in Uploads |-> <<>>]
    /\ qImg = [q \in Uploads |-> Unreadable]
    /\ qText = [q \in Uploads |-> FALSE]
    /\ qCand = [q \in Uploads |-> <<>>]
    /\ qJ = [q \in Uploads |-> 0]
    /\ qMaps = <<>> /\ qSigns = <<>> /\ qTouched = <<>>

\* the request q has read or written the directory d
Touch(touched, d, q) ==
    [x \in DOMAIN touched \cup {d} |->
        (IF x \in DOMAIN touched THEN touched[x] ELSE {})
            \cup (IF x = d THEN {q} ELSE {})]

\* the loop of check_mach_old_map from position j on: the first candidate
\* that is not the page itself, or 0 when the listing is exhausted
NextCandidate(candidates, j, image_path) ==
    IF \E k \in j..Len(candidates) : candidates[k] # image_path
    THEN CHOOSE k \in j..Len(candidates) :
            /\ candidates[k] # image_path
            /\ \A l \in j..(k - 1) : candidates[l] = image_path
    ELSE 0

\* where pdf_To_image goes when the iteration of page idx has ended: the next
\* iteration, or back into process_pdf, which lists the page files
AfterIteration(idx, pages) ==
    IF pdf_To_image_continues(idx, pages) THEN "save" ELSE "list"

\* upload_file draws session_id = str(uuid.uuid4()), an identifier no other
\* request holds, and makes the session directory with session_dir.mkdir
ConcurrentStart(q) ==
    /\ qPc[q] = "new"
    /\ \E session_id \in Uploads \ {qSid[p] : p \in Uploads} :
          /\ qSid' = [qSid EXCEPT ![q] = session_id]
          /\ qTouched' = Touch(qTouched, session_dir(session_id), q)
    /\ qPc' = [qPc EXCEPT ![q] = "save upload"]
    /\ UNCHANGED <<qPdf, qI, qFiles, qMaps, qSigns, qImg, qText, qCand, qJ,
                   pipeVars, matchVars, scanVars, cropVars, extractVars,
                   textVars, geomVars, valVars, subVars, maskVars, uploadVars,
                   mineVars, dirnVars, rerunVars, canvasVars>>

\* upload_file: file.save writes the upload into the session directory, and
\* process_pdf is called
ConcurrentUpload(q) ==
    /\ qPc[q] = "save upload"
    /\ qTouched' = Touch(qTouched, session_dir(qSid[q]), q)
    /\ qPc' = [qPc EXCEPT ![q] = "mkdir maps"]
    /\ UNCHANGED <<qPdf, qSid, qI, qFiles, qMaps, qSigns, qImg, qText, qCand, qJ,
                   pipeVars, matchVars, scanVars, cropVars, extractVars,
                   textVars, geomVars, valVars, subVars, maskVars, uploadVars,
                   mineVars, dirnVars, rerunVars, canvasVars>>

\* process_pdf: output_dir_maps.mkdir(parents=True, exist_ok=True)
ConcurrentMkdirMaps(q) ==
    /\ qPc[q] = "mkdir maps"
    /\ qMaps' = mkdir(qMaps, session_dir(qSid[q]))
    /\ qTouched' = Touch(qTouched, session_dir(qSid[q]), q)
    /\ qPc' = [qPc EXCEPT ![q] = "mkdir signs"]
    /\ UNCHANGED <<qPdf, qSid, qI, qFiles, qSigns, qImg, qText, qCand, qJ,
                   pipeVars, matchVars, scanVars, cropVars, extractVars,
                   textVars, geomVars, valVars, subVars, maskVars, uploadVars,
                   mineVars, dirnVars, rerunVars, canvasVars>>

\* process_pdf: output_dir_signs.mkdir(parents=True, exist_ok=True)
ConcurrentMkdirSigns(q) ==
    /\ qPc[q] = "mkdir signs"
    /\ qSigns' = mkdir(qSigns, session_dir(qSid[q]))
    /\ qTouched' = Touch(qTouched, session_dir(qSid[q]), q)
    /\ qPc' = [qPc EXCEPT ![q] = "convert"]
    /\ UNCHANGED <<qPdf, qSid, qI, qFiles, qMaps, qImg, qText, qCand, qJ,
                   pipeVars, matchVars, scanVars, cropVars, extractVars,
                   textVars, geomVars, valVars, subVars, maskVars, uploadVars,
                   mineVars, dirnVars, rerunVars, canvasVars>>

\* pdf_To_image is called: convert_from_path has rasterized the PDF and the
\* loop over its pages begins; without pages pdf_To_image returns
ConcurrentConvert(q) ==
    /\ qPc[q] = "convert"
    /\ qPc' = [qPc EXCEPT ![q] = IF Len(qPdf[q]) > 0 THEN "save" ELSE "list"]
    /\ qI' = [qI EXCEPT ![q] = 1]
    /\ UNCHANGED <<qPdf, qSid, qFiles, qMaps, qSigns, qTouched, qImg, qText,
                   qCand, qJ,
                   pipeVars, matchVars, scanVars, cropVars, extractVars,
                   textVars, geomVars, valVars, subVars, maskVars, uploadVars,
                   mineVars, dirnVars, rerunVars, canvasVars>>

\* an iteration of pdf_To_image begins: page.save writes page_<i>.jpg into
\* the maps directory of the session
ConcurrentSave(q) ==
    /\ qPc[q] = "save"
    /\ LET d == session_dir(qSid[q])
       IN  /\ qMaps' = [qMaps EXCEPT ![d] = page_save(@, qI[q], qPdf[q][qI[q]])]
           /\ qTouched' = Touch(qTouched, d, q)
    /\ qPc' = [qPc EXCEPT ![q] = "ocr"]
    /\ UNCHANGED <<qPdf, qSid, qI, qFiles, qSigns, qImg, qText, qCand, qJ,
                   pipeVars, matchVars, scanVars, cropVars, extractVars,
                   textVars, geomVars, valVars, subVars, maskVars, uploadVars,
                   mineVars, dirnVars, rerunVars, canvasVars>>

\* check_text_in_pdf: Image.open reads page_<i>.jpg as it is now and
\* pytesseract is started on it; Image.open of a file that is no longer there
\* raises and process_pdf returns the error
ConcurrentOcr(q) ==
    /\ qPc[q] = "ocr"
    /\ LET d == session_dir(qSid[q])
       IN  /\ qTouched' = Touch(qTouched, d, q)
           /\ IF qI[q] \in DOMAIN qMaps[d]
              THEN /\ qText' = [qText EXCEPT
                                  ![q] = check_text_in_pdf(qMaps[d][qI[q]])]
                   /\ qPc' = [qPc EXCEPT ![q] = "filter"]
              ELSE /\ qText' = qText
                   /\ qPc' = [qPc EXCEPT ![q] = "failed"]
    /\ UNCHANGED <<qPdf, qSid, qI, qFiles, qMaps, qSigns, qImg, qCand, qJ,
                   pipeVars, matchVars, scanVars, cropVars, extractVars,
                   textVars, geomVars, valVars, subVars, maskVars, uploadVars,
                   mineVars, dirnVars, rerunVars, canvasVars>>

\* OCR has returned: a text-heavy page is removed with os.remove, which
\* raises when the file is no longer there, and the iteration ends; for any
\* other page check_mach_old_map is called and tests os.path.isdir of the
\* maps directory: without the directory the page is kept without a scan
ConcurrentFilter(q) ==
    /\ qPc[q] = "filter"
    /\ LET d == session_dir(qSid[q])
           there == qI[q] \in DOMAIN qMaps[d]
       IN  /\ qTouched' = Touch(qTouched, d, q)
           /\ IF qText[q]
              THEN /\ qMaps' = [qMaps EXCEPT ![d] = os_remove(@, qI[q])]
                   /\ qPc' = [qPc EXCEPT
                                ![q] = IF there
                                       THEN AfterIteration(qI[q], Len(qPdf[q]))
                                       ELSE "failed"]
                   /\ qI' = [qI EXCEPT ![q] = IF there THEN qI[q] + 1 ELSE qI[q]]
              ELSE /\ qMaps' = qMaps
                   /\ qPc' = [qPc EXCEPT
                                ![q] = IF d \in DOMAIN qMaps THEN "glob"
                                       ELSE AfterIteration(qI[q], Len(qPdf[q]))]
                   /\ qI' = [qI EXCEPT
                               ![q] = IF d \in DOMAIN qMaps THEN qI[q]
                                      ELSE qI[q] + 1]
    /\ qText' = [qText EXCEPT ![q] = FALSE]
    /\ UNCHANGED <<qPdf, qSid, qFiles, qSigns, qImg, qCand, qJ,
                   pipeVars, matchVars, scanVars, cropVars, extractVars,
                   textVars, geomVars, valVars, subVars, maskVars, uploadVars,
                   mineVars, dirnVars, rerunVars, canvasVars>>

\* check_mach_old_map: glob.glob lists the *.jpg of the maps directory as it
\* is now, and the loop over the listing begins with the first candidate
\* that is not the page itself; without one the page is kept
ConcurrentGlob(q) ==
    /\ qPc[q] = "glob"
    /\ LET d == session_dir(qSid[q])
       IN  /\ qTouched' = Touch(qTouched, d, q)
           /\ \E candidates \in GlobOrders(qMaps[d]) :
                 LET j == NextCandidate(candidates, 1, qI[q])
                 IN  /\ qCand' = [qCand EXCEPT
                                    ![q] = IF j = 0 THEN <<>> ELSE candidates]
                     /\ qJ' = [qJ EXCEPT ![q] = j]
                     /\ qPc' = [qPc EXCEPT
                                  ![q] = IF j = 0
                                         THEN AfterIteration(qI[q], Len(qPdf[q]))
                                         ELSE "match"]
                     /\ qI' = [qI EXCEPT ![q] = IF j = 0 THEN qI[q] + 1 ELSE qI[q]]
    /\ UNCHANGED <<qPdf, qSid, qFiles, qMaps, qSigns, qImg, qText,
                   pipeVars, matchVars, scanVars, cropVars, extractVars,
                   textVars, geomVars, valVars, subVars, maskVars, uploadVars,
                   mineVars, dirnVars, rerunVars, canvasVars>>

\* one pass of the loop of check_mach_old_map begins: orb.matches reads the
\* page with its first preprocess_image (cv2.imread of a file that is gone
\* gives None)
ConcurrentMatchQuery(q) ==
    /\ qPc[q] = "match"
    /\ LET d == session_dir(qSid[q])
       IN  /\ qTouched' = Touch(qTouched, d, q)
           /\ qImg' = [qImg EXCEPT ![q] = FileAt(qMaps[d], qI[q])]
    /\ qPc' = [qPc EXCEPT ![q] = "match train"]
    /\ UNCHANGED <<qPdf, qSid, qI, qFiles, qMaps, qSigns, qText, qCand, qJ,
                   pipeVars, matchVars, scanVars, cropVars, extractVars,
                   textVars, geomVars, valVars, subVars, maskVars, uploadVars,
                   mineVars, dirnVars, rerunVars, canvasVars>>

\* orb.matches reads the candidate as it is now with its second
\* preprocess_image and compares the two images read; on a match the page is
\* to be removed, else the loop goes on with the next candidate
ConcurrentMatch(q) ==
    /\ qPc[q] = "match train"
    /\ LET d == session_dir(qSid[q])
           found == matches(process_pdf_orb, qImg[q],
                            FileAt(qMaps[d], qCand[q][qJ[q]]))
           j == NextCandidate(qCand[q], qJ[q] + 1, qI[q])
           kept == ~found /\ j = 0
       IN  /\ qTouched' = Touch(qTouched, d, q)
           /\ qPc' = [qPc EXCEPT
                        ![q] = IF found THEN "remove"
                               ELSE IF j = 0
                               THEN AfterIteration(qI[q], Len(qPdf[q]))
                               ELSE "match"]
           /\ qJ' = [qJ EXCEPT ![q] = IF found THEN 0 ELSE j]
           /\ qCand' = [qCand EXCEPT ![q] = IF found \/ j = 0 THEN <<>> ELSE @]
           /\ qI' = [qI EXCEPT ![q] = IF kept THEN qI[q] + 1 ELSE qI[q]]
    /\ qImg' = [qImg EXCEPT ![q] = Unreadable]
    /\ UNCHANGED <<qPdf, qSid, qFiles, qMaps, qSigns, qText,
                   pipeVars, matchVars, scanVars, cropVars, extractVars,
                   textVars, geomVars, valVars, subVars, maskVars, uploadVars,
                   mineVars, dirnVars, rerunVars, canvasVars>>

\* the page matched an old map: os.remove deletes it, or raises when the file
\* is no longer there, and the iteration ends
ConcurrentRemove(q) ==
    /\ qPc[q] = "remove"
    /\ LET d == session_dir(qSid[q])
           there == qI[q] \in DOMAIN qMaps[d]
       IN  /\ qTouched' = Touch(qTouched, d, q)
           /\ qMaps' = [qMaps EXCEPT ![d] = os_remove(@, qI[q])]
           /\ qPc' = [qPc EXCEPT
                        ![q] = IF there THEN AfterIteration(qI[q], Len(qPdf[q]))
                               ELSE "failed"]
           /\ qI' = [qI EXCEPT ![q] = IF there THEN qI[q] + 1 ELSE qI[q]]
    /\ UNCHANGED <<qPdf, qSid, qFiles, qSigns, qImg, qText, qCand, qJ,
                   pipeVars, matchVars, scanVars, cropVars, extractVars,
                   textVars, geomVars, valVars, subVars, maskVars, uploadVars,
                   mineVars, dirnVars, rerunVars, canvasVars>>

\* pdf_To_image has returned: process_pdf lists page_*.jpg of the maps
\* directory and sorts the listing by page number
ConcurrentList(q) ==
    /\ qPc[q] = "list"
    /\ LET d == session_dir(qSid[q])
       IN  /\ qTouched' = Touch(qTouched, d, q)
           /\ qFiles' = [qFiles EXCEPT ![q] = Files_sorted(qMaps[d])]
           /\ qPc' = [qPc EXCEPT ![q] = IF Files_sorted(qMaps[d]) = <<>>
                                        THEN "done" ELSE "read"]
    /\ qI' = [qI EXCEPT ![q] = 1]
    /\ UNCHANGED <<qPdf, qSid, qMaps, qSigns, qImg, qText, qCand, qJ,
                   pipeVars, matchVars, scanVars, cropVars, extractVars,
                   textVars, geomVars, valVars, subVars, maskVars, uploadVars,
                   mineVars, dirnVars, rerunVars, canvasVars>>

\* extract_signs on the next page file of the sorted listing begins:
\* cv2.imread reads the page; for a file that is no longer there it gives
\* None, cvtColor raises and process_pdf returns the error
ConcurrentRead(q) ==
    /\ qPc[q] = "read"
    /\ LET d == session_dir(qSid[q])
           k == qFiles[q][qI[q]]
       IN  /\ qTouched' = Touch(qTouched, d, q)
           /\ IF k \in DOMAIN qMaps[d]
              THEN /\ qImg' = [qImg EXCEPT ![q] = qMaps[d][k].file]
                   /\ qPc' = [qPc EXCEPT ![q] = "write"]
              ELSE /\ qImg' = qImg
                   /\ qPc' = [qPc EXCEPT ![q] = "failed"]
    /\ UNCHANGED <<qPdf, qSid, qI, qFiles, qMaps, qSigns, qText, qCand, qJ,
                   pipeVars, matchVars, scanVars, cropVars, extractVars,
                   textVars, geomVars, valVars, subVars, maskVars, uploadVars,
                   mineVars, dirnVars, rerunVars, canvasVars>>

\* extract_signs ends: cv2.imwrite puts the crop cut from the image that was
\* read into the signs directory of the session
ConcurrentWrite(q) ==
    /\ qPc[q] = "write"
    /\ LET d == session_dir(qSid[q])
       IN  /\ qTouched' = Touch(qTouched, d, q)
           /\ qSigns' = [qSigns EXCEPT
                           ![d] = extract_signs_from(@, qFiles[q][qI[q]], qImg[q])]
    /\ qPc' = [qPc EXCEPT ![q] = IF qI[q] + 1 > Len(qFiles[q]) THEN "done"
                                 ELSE "read"]
    /\ qI' = [qI EXCEPT ![q] = qI[q] + 1]
    /\ qImg' = [qImg EXCEPT ![q] = Unreadable]
    /\ UNCHANGED <<qPdf, qSid, qFiles, qMaps, qText, qCand, qJ,
                   pipeVars, matchVars, scanVars, cropVars, extractVars,
                   textVars, geomVars, valVars, subVars, maskVars, uploadVars,
                   mineVars, dirnVars, rerunVars, canvasVars>>

NextConcurrent ==
    \E q \in Uploads :
        \/ ConcurrentStart(q) \/ ConcurrentUpload(q) \/ ConcurrentMkdirMaps(q)
        \/ ConcurrentMkdirSigns(q) \/ ConcurrentConvert(q) \/ ConcurrentSave(q)
        \/ ConcurrentOcr(q) \/ ConcurrentFilter(q) \/ ConcurrentGlob(q)
        \/ ConcurrentMatchQuery(q) \/ ConcurrentMatch(q) \/ ConcurrentRemove(q)
        \/ ConcurrentList(q) \/ ConcurrentRead(q) \/ ConcurrentWrite(q)

SpecConcurrent == InitConcurrent /\ [][NextConcurrent]_vars

\* the maps directory pdf_To_image leaves when the upload is served alone
RECURSIVE AloneMaps(_, _, _)
AloneMaps(fs, pdf, k) ==
    IF k > Len(pdf) THEN fs
    ELSE AloneMaps(handle_page(process_pdf_orb, fs, k, pdf[k],
                               CHOOSE c \in GlobOrders(page_save(fs, k, pdf[k])) : TRUE).dir,
                   pdf, k + 1)

\* the signs directory of an upload served alone: one crop of every page file
AloneSigns(maps) ==
    [f \in {CropName(PageStem(k), PrimaryId(0)) : k \in JpgPaths(maps)} |->
        maps[CHOOSE k \in JpgPaths(maps) :
                 f = CropName(PageStem(k), PrimaryId(0))].file]

\* C24: with upload requests served at the same time every request works only
\* inside its own session directory: each directory has one writer/reader, and
\* the pages retained and the crops produced for an upload are those of the
\* upload served alone, under every interleaving with the other upload.
C24_SessionsIsolated ==
    /\ \A d \in DOMAIN qTouched : Cardinality(qTouched[d]) <= 1
    /\ \A q \in Uploads :
          /\ qPc[q] # "failed"
          /\ qPc[q] = "done" =>
                /\ qMaps[session_dir(qSid[q])] = AloneMaps(<<>>, qPdf[q], 1)
                /\ qSigns[session_dir(qSid[q])]
                      = AloneSigns(AloneMaps(<<>>, qPdf[q], 1))

\* both requests have saved and kept the same map as page 1 while the other
\* was in its page loop, and both have finished with their own files
C24_Witness ==
    /\ qPc = [q \in Uploads |-> "done"]
    /\ \A q \in Uploads :
          /\ Len(qPdf[q]) = 2
          /\ qPdf[q][1] = [file |-> PageAB, chars |-> 500]
          /\ 1 \in DOMAIN qMaps[session_dir(qSid[q])]
          /\ CropName(PageStem(1), PrimaryId(0))
                \in DOMAIN qSigns[session_dir(qSid[q])]
    /\ qPdf[1][2] # qPdf[2][2]

-----------------------------------------------------------------------------
(* Sign_extractor_class.save_crop on one image, bounding box and padding *)

InitCrop ==
    /\ DirectionIdle /\ MineIdle /\ UploadIdle /\ MaskIdle /\ SubIdle
    /\ ValIdle /\ GeomIdle /\ PipeIdle /\ MatchIdle /\ ScanIdle /\ ExtractIdle
    /\ TextIdle /\ RerunIdle /\ ConcurrentIdle /\ CanvasIdle
    /\ cW \in 1..MaxSide
    /\ cH \in 1..MaxSide
    /\ cBox \in BoundingBoxes(cW, cH)
    /\ cPad \in 0..MaxPad
    /\ cDone = FALSE
    /\ cCrop = [left |-> 0, top |-> 0, right |-> 0, bottom |-> 0]

RunCrop ==
    /\ ~cDone
    /\ cDone' = TRUE
    /\ cCrop' = save_crop(cW, cH, cBox, cPad)
    /\ UNCHANGED <<cW, cH, cBox, cPad, pipeVars, matchVars, scanVars,
                   extractVars, textVars, geomVars, valVars, subVars, maskVars,
                   uploadVars, mineVars, dirnVars, rerunVars, concVars,
                   canvasVars>>

NextCrop == RunCrop

SpecCrop == InitCrop /\ [][NextCrop]_vars

\* C9: for every bounding box and padding p >= 0 the sliced region has no
\* negative offset and does not exceed the source image.
C9_CropInsideImage ==
    cDone =>
        /\ 0 <= cCrop.left /\ 0 <= cCrop.top
        /\ cCrop.right <= cW /\ cCrop.bottom <= cH

\* a box touching all four edges, padded
C9_Witness ==
    /\ cDone /\ cPad > 0
    /\ cBox = [left |-> 0, top |-> 0, width |-> cW, height |-> cH]
    /\ cCrop = [left |-> 0, top |-> 0, right |-> cW, bottom |-> cH]

\* C29: for a bounding box of width and height >= 1 inside the source image
\* and a padding p >= 0, the region save_crop slices is non-empty, contains the
\* whole bounding box, and extends beyond it by at most p pixels on each side.
C29_CropHoldsBoxWithinPadding ==
    cDone =>
        /\ cCrop.left < cCrop.right /\ cCrop.top < cCrop.bottom
        /\ cCrop.left <= cBox.left /\ cBox.left + cBox.width <= cCrop.right
        /\ cCrop.top <= cBox.top /\ cBox.top + cBox.height <= cCrop.bottom
        /\ cBox.left - cCrop.left <= cPad
        /\ cCrop.right - (cBox.left + cBox.width) <= cPad
        /\ cBox.top - cCrop.top <= cPad
        /\ cCrop.bottom - (cBox.top + cBox.height) <= cPad

\* a box in the middle of the image, with the whole padding on every side
C29_Witness ==
    /\ cDone /\ cPad = 1
    /\ cBox = [left |-> 1, top |-> 1, width |-> 1, height |-> 1]
    /\ cCrop = [left |-> 0, top |-> 0, right |-> 3, bottom |-> 3]

-----------------------------------------------------------------------------
(* The crops one pipeline run writes: extract_signs page after page *)

InitExtract ==
    /\ DirectionIdle /\ MineIdle /\ UploadIdle /\ MaskIdle /\ SubIdle
    /\ ValIdle /\ GeomIdle /\ PipeIdle /\ MatchIdle /\ ScanIdle /\ CropIdle
    /\ TextIdle /\ RerunIdle /\ ConcurrentIdle /\ CanvasIdle
    /\ eFiles = <<>>
    /\ eMined = 0

\* extract_signs on the next page of the sorted listing
ExtractPage ==
    /\ eMined < MaxPages
    \* at most two primary contours and one sub-sign contour pass validation
    /\ \E primary \in {P \in SUBSET PrimaryIndices : Cardinality(P) <= 2} :
       \E subs \in {S \in SUBSET SubSignIndices : Cardinality(S) <= 1} :
          eFiles' = imwrite_all(eFiles,
                                extract_signs(PageStem(eMined + 1), primary, subs))
    /\ eMined' = eMined + 1
    /\ UNCHANGED <<pipeVars, matchVars, scanVars, cropVars, textVars, geomVars,
                   valVars, subVars, maskVars, uploadVars, mineVars, dirnVars,
                   rerunVars, concVars, canvasVars>>

NextExtract == ExtractPage

SpecExtract == InitExtract /\ [][NextExtract]_vars

\* C10: no two crops exported in one pipeline run share a file name: each crop
\* file is written once (a sub-sign crop never takes the name of a primary crop
\* of its page, crops of different pages never collide).
C10_EachCropWrittenOnce ==
    \A f \in DOMAIN eFiles : eFiles[f] = 1

-----------------------------------------------------------------------------
(* MapExtractor.check_text_in_pdf on one page *)

InitText ==
    /\ DirectionIdle /\ MineIdle /\ UploadIdle /\ MaskIdle /\ SubIdle
    /\ ValIdle /\ GeomIdle /\ PipeIdle /\ MatchIdle /\ ScanIdle /\ CropIdle
    /\ ExtractIdle /\ RerunIdle /\ ConcurrentIdle /\ CanvasIdle
    /\ tChars \in 0..MaxChars
    /\ tDone = FALSE
    /\ tResult = FALSE

RunText ==
    /\ ~tDone
    /\ tDone' = TRUE
    /\ tResult' = check_text_in_pdf([file |-> PageBlank, chars |-> tChars, jpg |-> TRUE])
    /\ UNCHANGED <<tChars, pipeVars, matchVars, scanVars, cropVars, extractVars,
                   geomVars, valVars, subVars, maskVars, uploadVars, mineVars,
                   dirnVars, rerunVars, concVars, canvasVars>>

NextText == RunText

SpecText == InitText /\ [][NextText]_vars

\* C4: the text filter returns true exactly when OCR extracts strictly more
\* than 500 characters from the page; 500 characters or fewer are not
\* text-heavy.
C4_TextHeavyIffOver500 ==
    tDone => /\ tResult = (tChars > 500)
             /\ (tChars <= 500 => tResult = FALSE)

C4_Witness == tDone /\ tChars = 500 /\ tResult = FALSE

-----------------------------------------------------------------------------
(* extract_signs: validation of one contour *)

InitValidate ==
    /\ DirectionIdle /\ MineIdle /\ UploadIdle /\ MaskIdle /\ SubIdle
    /\ PipeIdle /\ MatchIdle /\ ScanIdle /\ CropIdle /\ ExtractIdle /\ TextIdle
    /\ GeomIdle /\ RerunIdle /\ ConcurrentIdle /\ CanvasIdle
    /\ vMins \in MinFractions
    /\ vContour \in ValidateContours
    /\ vCenter \in CountSamples(boundingRect(vContour).w * boundingRect(vContour).h,
                                vMins.min_center_frac)
    /\ vRed \in RedSamples(vContour, vMins.min_redrim_frac)
    /\ vDone = FALSE
    /\ vExported = FALSE

RunValidate ==
    /\ ~vDone
    /\ vDone' = TRUE
    /\ vExported' = validate_contour(DefaultGeometry, vMins, vContour, vCenter, vRed)
    /\ UNCHANGED <<vMins, vContour, vCenter, vRed, pipeVars, matchVars,
                   scanVars, cropVars, extractVars, textVars, geomVars, subVars,
                   maskVars, uploadVars, mineVars, dirnVars, rerunVars,
                   concVars, canvasVars>>

NextValidate == RunValidate

SpecValidate == InitValidate /\ [][NextValidate]_vars

HullW == vContour.xmax - vContour.xmin + 1
HullH == vContour.ymax - vContour.ymin + 1
HullPlausible ==
    /\ HullW * HullH >= 6400
    /\ HullW <= 2 * HullH /\ HullH <= 2 * HullW

\* C12: a plausible contour is exported as a primary crop exactly when, inside
\* the bounding box of its convex hull, the fraction of positive centerOfSign
\* pixels is at least min_center_frac and the fraction of positive redEdge
\* pixels is at least min_redrim_frac; it is rejected if either is below.
C12_ExportedIffBothFractions ==
    (vDone /\ HullPlausible) =>
        (vExported <=>
            /\ vCenter * vMins.min_center_frac.den
                   >= vMins.min_center_frac.num * HullW * HullH
            /\ vRed * vMins.min_redrim_frac.den
                   >= vMins.min_redrim_frac.num * HullW * HullH)

\* both fractions exactly 0.05 of an 80 x 80 box: exported
C12_Witness ==
    /\ vDone /\ vMins = DefaultMins
    /\ HullW = 80 /\ HullH = 80
    /\ vCenter = 320 /\ vRed = 320
    /\ vExported

-----------------------------------------------------------------------------
(* extract_subsigns: validation of one yellow contour *)

InitSubsign ==
    /\ DirectionIdle /\ MineIdle /\ UploadIdle /\ MaskIdle /\ PipeIdle
    /\ MatchIdle /\ ScanIdle /\ CropIdle /\ ExtractIdle /\ TextIdle /\ GeomIdle
    /\ ValIdle /\ RerunIdle /\ ConcurrentIdle /\ CanvasIdle
    /\ uCand \in YellowContours
    /\ uDone = FALSE
    /\ uRect = [value |-> FALSE, at |-> "area"]
    /\ uExported = FALSE

RunSubsign ==
    /\ ~uDone
    /\ uDone' = TRUE
    /\ uRect' = is_rectangular(uCand, 700)
    /\ uExported' = extract_subsign(uCand)
    /\ UNCHANGED <<uCand, pipeVars, matchVars, scanVars, cropVars, extractVars,
                   textVars, geomVars, valVars, maskVars, uploadVars, mineVars,
                   dirnVars, rerunVars, concVars, canvasVars>>

NextSubsign == RunSubsign

SpecSubsign == InitSubsign /\ [][NextSubsign]_vars

RectLong == IF uCand.w >= uCand.h THEN uCand.w ELSE uCand.h
RectShort == IF uCand.w >= uCand.h THEN uCand.h ELSE uCand.w

\* C13 as claimed: a sub-sign is exported only if the yellow-mask pixels inside
\* the rotated rectangle are more than 0.72 of the rectangle's pixels, and
\* never when they are half of them.
C13_MaskFillAbove072 ==
    (uDone /\ uExported) =>
        /\ 100 * uCand.yellow_pixels > 72 * uCand.total_pixels
        /\ 2 * uCand.yellow_pixels # uCand.total_pixels

\* C13, amended: a sub-sign candidate is rejected unless its fill ratio,
\* contour area over the area of the rotated minimum-area rectangle, is greater
\* than 0.72 and the yellow-mask pixels inside the filled rectangle are more
\* than 0.40 of its pixels; a contour filling half of its rectangle is never
\* exported.
C13_FillAbove072AndYellowAbove040 ==
    uDone =>
        /\ uExported =>
              /\ 100 * uCand.area > 72 * uCand.w * uCand.h
              /\ 100 * uCand.yellow_pixels > 40 * uCand.total_pixels
        /\ (2 * uCand.area <= uCand.w * uCand.h) => ~uExported
        /\ (/\ uRect.at = "fill"
            /\ 100 * uCand.area > 72 * uCand.w * uCand.h
            /\ 100 * uCand.yellow_pixels > 40 * uCand.total_pixels) => uExported

\* exported although only half of the rectangle's pixels are yellow
C13_Witness ==
    /\ uDone /\ uExported
    /\ 2 * uCand.yellow_pixels = uCand.total_pixels
    /\ 100 * uCand.area > 72 * uCand.w * uCand.h

\* C14: a sub-sign candidate is rejected when its contour area is below 700 or
\* the ratio of the sides of its rotated rectangle is outside [2.3, 6.0]; an
\* area of exactly 700 and a ratio of exactly 2.3 or 6.0 pass these gates.
C14_AreaAndRatioGates ==
    uDone =>
        /\ (uCand.area < 700) => (~uRect.value /\ ~uExported)
        /\ (10 * RectLong < 23 * RectShort \/ RectLong > 6 * RectShort)
              => (~uRect.value /\ ~uExported)
        /\ (/\ uCand.area >= 700
            /\ 10 * RectLong >= 23 * RectShort
            /\ RectLong <= 6 * RectShort) => uRect.at = "fill"

\* area exactly 700 and ratio exactly 2.3: past both gates, and rectangular
C14_Witness ==
    /\ uDone
    /\ uCand.area = 700
    /\ 10 * RectLong = 23 * RectShort
    /\ uRect = [value |-> TRUE, at |-> "fill"]

\* ratio exactly 6.0 with enough area: past both gates
C14_WitnessSix ==
    /\ uDone
    /\ uCand.area >= 700
    /\ RectLong = 6 * RectShort
    /\ uRect.at = "fill"

-----------------------------------------------------------------------------
(* HSVColorMask.get_masks on one image *)

InitMasks ==
    /\ DirectionIdle /\ MineIdle /\ UploadIdle /\ PipeIdle /\ MatchIdle
    /\ ScanIdle /\ CropIdle /\ ExtractIdle /\ TextIdle /\ GeomIdle /\ ValIdle
    /\ SubIdle /\ RerunIdle /\ ConcurrentIdle /\ CanvasIdle
    /\ kImage \in HsvImages
    /\ kDone = FALSE
    /\ kRedEdge = {}
    /\ kCenter = {}

RunMasks ==
    /\ ~kDone
    /\ kDone' = TRUE
    /\ LET masks == get_masks(kImage)
       IN  /\ kRedEdge' = masks.red_edge
           /\ kCenter' = masks.center_of_sign
    /\ UNCHANGED <<kImage, pipeVars, matchVars, scanVars, cropVars, extractVars,
                   textVars, geomVars, valVars, subVars, uploadVars, mineVars,
                   dirnVars, rerunVars, concVars, canvasVars>>

NextMasks == RunMasks

SpecMasks == InitMasks /\ [][NextMasks]_vars

ClosedRed ==
    MORPH_CLOSE(MaskPixels, inRange(kImage, red1) \cup inRange(kImage, red2), 2)
ClosedYellow == MORPH_CLOSE(MaskPixels, inRange(kImage, yellow), 1)
ClosedWhite == MORPH_CLOSE(MaskPixels, inRange(kImage, white), 1)

\* C18: redEdge is one erosion of (closed red AND NOT closed white) and
\* centerOfSign is closed yellow OR closed white; taking closed yellow out of
\* the red mask has no effect on redEdge.
C18_RedEdgeIgnoresYellow ==
    kDone =>
        /\ kRedEdge = erode(MaskPixels, ClosedRed \ ClosedWhite)
        /\ kCenter = ClosedYellow \cup ClosedWhite

\* a pixel of the red edge that the closed yellow mask covers too
C18_Witness ==
    /\ kDone
    /\ kRedEdge \cap ClosedYellow # {}
    /\ kRedEdge # erode(MaskPixels, (ClosedRed \ ClosedYellow) \ ClosedWhite)

-----------------------------------------------------------------------------
(* app.upload_file on one request *)

\* an earlier upload may have left its session directory
InitUpload ==
    /\ DirectionIdle /\ MineIdle /\ PipeIdle /\ MatchIdle /\ ScanIdle
    /\ CropIdle /\ ExtractIdle /\ TextIdle /\ GeomIdle /\ ValIdle /\ SubIdle
    /\ MaskIdle /\ RerunIdle /\ ConcurrentIdle /\ CanvasIdle
    /\ hReq \in Requests
    /\ hDone = FALSE
    /\ hPc = "new"
    /\ hStatus = 0
    /\ hBody = NoBody /\ hRaised = FALSE
    /\ \/ hSessions = {} /\ hSaved = {} /\ hRuns = {}
       \/ hSessions = {0} /\ hSaved = {<<0, <<"t", ".", "p", "d", "f">>>>} /\ hRuns = {0}

\* the response of upload_file is sent
Answer(r) ==
    /\ hDone' = TRUE
    /\ hPc' = "answered"
    /\ hStatus' = r.status
    /\ hSessions' = r.sessions
    /\ hSaved' = r.saved
    /\ hRuns' = r.runs
    /\ hBody' = r.body
    /\ hRaised' = r.raised

\* the three guards of upload_file answer 400; otherwise the uuid is drawn and
\* session_dir.mkdir makes the session directory, or raises
UploadReceive ==
    /\ hPc = "new"
    /\ LET r == upload_file(hReq, hSessions, hSaved, hRuns, 1, "mkdir raises")
       IN  \/ Answer(r)
           \/ /\ r.status # 400
              /\ hSessions' = upload_file(hReq, hSessions, hSaved, hRuns, 1,
                                          "save raises").sessions
              /\ hPc' = "made"
              /\ UNCHANGED <<hDone, hStatus, hSaved, hRuns, hBody, hRaised, canvasVars>>
    /\ UNCHANGED <<hReq, pipeVars, matchVars, scanVars, cropVars, extractVars,
                   textVars, geomVars, valVars, subVars, maskVars, mineVars,
                   dirnVars, rerunVars, concVars, canvasVars>>

\* file.save(pdf_path) writes the upload into the session directory, or raises
UploadSave ==
    /\ hPc = "made"
    /\ \/ \E outcome \in SaveOutcomes :
             Answer(upload_file(hReq, hSessions, hSaved, hRuns, 1, outcome))
       \/ /\ hSaved' = upload_file(hReq, hSessions, hSaved, hRuns, 1,
                                    "empty").saved
          /\ hPc' = "saved"
          /\ UNCHANGED <<hDone, hStatus, hSessions, hRuns, hBody, hRaised, canvasVars>>
    /\ UNCHANGED <<hReq, pipeVars, matchVars, scanVars, cropVars, extractVars,
                   textVars, geomVars, valVars, subVars, maskVars, mineVars,
                   dirnVars, rerunVars, concVars, canvasVars>>

\* process_pdf(str(pdf_path), session_id) is called and works on the session
UploadProcess ==
    /\ hPc = "saved"
    /\ hRuns' = upload_file(hReq, hSessions, hSaved, hRuns, 1, "empty").runs
    /\ hPc' = "processing"
    /\ UNCHANGED <<hReq, hDone, hStatus, hSessions, hSaved, hBody, hRaised,
                   pipeVars, matchVars, scanVars, cropVars, extractVars,
                   textVars, geomVars, valVars, subVars, maskVars, mineVars,
                   dirnVars, rerunVars, concVars, canvasVars>>

\* process_pdf returns and upload_file answers from what it returned
UploadAnswer ==
    /\ hPc = "processing"
    /\ \E outcome \in ProcessPdfOutcomes :
          Answer(upload_file(hReq, hSessions, hSaved, hRuns, 1, outcome))
    /\ UNCHANGED <<hReq, pipeVars, matchVars, scanVars, cropVars, extractVars,
                   textVars, geomVars, valVars, subVars, maskVars, mineVars,
                   dirnVars, rerunVars, concVars, canvasVars>>

NextUpload == UploadReceive \/ UploadSave \/ UploadProcess \/ UploadAnswer

SpecUpload == InitUpload /\ [][NextUpload]_vars

\* the name has a last extension and it is pdf in some mix of cases
LastExtensionIsPdf ==
    LET nm == hReq.filename
        len == Len(nm)
    IN  /\ len >= 4
        /\ nm[len - 3] = "."
        /\ nm[len - 2] \in {"p", "P"}
        /\ nm[len - 1] \in {"d", "D"}
        /\ nm[len] \in {"f", "F"}

\* C20: an upload is rejected with status 400 when there is no file part, the
\* filename is empty, or the filename's last extension is not pdf
\* (case-insensitively); then no session directory is created, nothing is
\* saved and the pipeline is not run.
C20_BadUploadRejected ==
    [][(\/ ~hReq.has_file
        \/ hReq.filename = <<>>
        \/ ~LastExtensionIsPdf)
          => /\ hStatus' = 400
             /\ hSessions' = hSessions
             /\ hSaved' = hSaved
             /\ hRuns' = hRuns]_vars

\* a name ending in pdf without a dot was answered 400 and left nothing behind
C20_Witness ==
    /\ hDone
    /\ hReq.has_file
    /\ hReq.filename = <<"t", "p", "d", "f">>
    /\ hStatus = 400
    /\ hSessions = {} /\ hSaved = {} /\ hRuns = {}

\* C25: whenever a step raises inside process_pdf the upload is answered with
\* status 500 and an error message, never with 200; a 200 response with an
\* empty sign list is returned only when the pipeline completed without an
\* exception; a 200 response with a non-empty sign list carries the session id.
C25_RaiseAnswered500 ==
    hDone =>
        /\ hRaised => (hStatus = 500 /\ hBody.error)
        /\ (hStatus = 200 /\ hBody.signs = "[]") => ~hRaised
        /\ (hStatus = 200 /\ hBody.signs \notin {"[]", "None"})
              => hBody.session_id = {1}

-----------------------------------------------------------------------------
(* Geometry_finder.plausible on one contour *)

InitPlausible ==
    /\ DirectionIdle /\ MineIdle /\ UploadIdle /\ MaskIdle /\ SubIdle
    /\ ValIdle /\ PipeIdle /\ MatchIdle /\ ScanIdle /\ CropIdle /\ ExtractIdle
    /\ TextIdle /\ RerunIdle /\ ConcurrentIdle /\ CanvasIdle
    /\ gGeom \in Geometries
    /\ gCanvas = MaxBoxSide
    /\ gContour \in Contours(gCanvas)
    /\ gDone = FALSE
    /\ gResult = FALSE

RunPlausible ==
    /\ ~gDone
    /\ gDone' = TRUE
    /\ gResult' = plausible(gGeom, gContour)
    /\ UNCHANGED <<gGeom, gCanvas, gContour, pipeVars, matchVars, scanVars,
                   cropVars, extractVars, textVars, valVars, subVars, maskVars,
                   uploadVars, mineVars, dirnVars, rerunVars, concVars,
                   canvasVars>>

NextPlausible == RunPlausible

SpecPlausible == InitPlausible /\ [][NextPlausible]_vars

BoxW == gContour.xmax - gContour.xmin + 1
BoxH == gContour.ymax - gContour.ymin + 1
BoxLong == IF BoxW >= BoxH THEN BoxW ELSE BoxH
BoxShort == IF BoxW >= BoxH THEN BoxH ELSE BoxW

\* C11: a contour is plausible exactly when its bounding box w x h has
\* w*h >= min_area (6400 by default) and max(w,h)/min(w,h) <= max_aspect_ratio
\* (2.0 by default); a box at exactly either limit is plausible.
C11_PlausibleIffAreaAndAspect ==
    gDone =>
        /\ gResult = (/\ BoxW * BoxH >= gGeom.min_area
                      /\ BoxLong * gGeom.max_aspect_ratio.den
                            <= gGeom.max_aspect_ratio.num * BoxShort)
        /\ (gGeom = DefaultGeometry /\ BoxW = 80 /\ BoxH = 80) => gResult = TRUE
        /\ (gGeom = DefaultGeometry /\ BoxW * BoxH >= 6400 /\ BoxLong = 2 * BoxShort)
              => gResult = TRUE

C11_Witness ==
    /\ gDone /\ gGeom = DefaultGeometry
    /\ BoxW = 160 /\ BoxH = 80
    /\ gResult = TRUE

-----------------------------------------------------------------------------
(* extract_signs up to plausible on a page and on the page of doubled size *)

InitCanvas ==
    /\ DirectionIdle /\ MineIdle /\ UploadIdle /\ MaskIdle /\ SubIdle
    /\ ValIdle /\ PipeIdle /\ MatchIdle /\ ScanIdle /\ CropIdle /\ ExtractIdle
    /\ TextIdle /\ RerunIdle /\ ConcurrentIdle /\ GeomIdle
    /\ bShape \in CanvasShapes
    /\ bGeom \in CanvasGeometries
    /\ bOffset \in CanvasOffsets
    /\ bDone = FALSE
    /\ bSmall = NoContours
    /\ bDoubled = NoContours

\* the page of CanvasSide pixels a side showing the shape, and the page of
\* twice the side showing the same pixels of it, each taken through
\* extract_signs up to the plausibility test
RunCanvas ==
    /\ ~bDone
    /\ bDone' = TRUE
    /\ bSmall' = plausible_contours(bGeom, DrawnHsv(CanvasSide, bShape, 0))
    /\ bDoubled' = plausible_contours(bGeom, DrawnHsv(2 * CanvasSide, bShape, bOffset))
    /\ UNCHANGED <<bShape, bGeom, bOffset, pipeVars, matchVars, scanVars,
                   cropVars, extractVars, textVars, geomVars, valVars, subVars,
                   maskVars, uploadVars, mineVars, dirnVars, rerunVars,
                   concVars>>

NextCanvas == RunCanvas

SpecCanvas == InitCanvas /\ [][NextCanvas]_vars

\* the shape is red all over and fills the small page
FillsCanvas ==
    bShape = [x |-> 0, y |-> 0, w |-> CanvasSide, h |-> CanvasSide, centre |-> "red"]

\* the contour c1 lies inside the box of the contour c2
Inside(c1, c2) ==
    /\ c1.xmin > c2.xmin /\ c1.xmax < c2.xmax
    /\ c1.ymin > c2.ymin /\ c1.ymax < c2.ymax

\* C19: doubling the canvas while a shape keeps its pixel size can flip the
\* shape's plausibility decision. A red square that fills the small page and
\* has exactly the minimum area is accepted by plausible() there and rejected
\* on the page of doubled size, where it keeps its place and its pixels; with
\* the shape at its place the red-edge mask of the larger page has no pixel
\* that the mask of the small page lacks; and no contour handed to plausible()
\* lies inside another, so every one of them is an outer contour.
C19_CanvasDoublingFlips ==
    bDone =>
        /\ (FillsCanvas /\ bOffset = 0 /\ bGeom.min_area = CanvasSide * CanvasSide)
              => /\ bSmall.plausible # {}
                 /\ bDoubled.Shape_edge # {}
                 /\ bDoubled.plausible = {}
        /\ bOffset = 0 => bDoubled.red_edge \subseteq bSmall.red_edge
        /\ \A found \in {bSmall, bDoubled} :
              \A c1, c2 \in found.Shape_edge : ~Inside(c1, c2)

\* a shape whose contour plausible() accepted on the small page, while on the
\* page of doubled size it found a contour of the same shape and rejected it
C19_Witness ==
    /\ bDone
    /\ bSmall.plausible # {}
    /\ bDoubled.Shape_edge # {}
    /\ bDoubled.plausible = {}

====
